---- MODULE Spec2Model ----
(***************************************************************************)
(* Model of the hotword-list generator of DallasCCTranscriber              *)
(* (src/src/hotwords.py, generate_hotwords) and of the transcriber that    *)
(* reads its output table (src/src/transcriber.py, transcribe_audio).      *)
(*                                                                         *)
(* Strings are sequences of characters, a character is a one-element name. *)
(* A character that cannot be spelled in a string is written by its code   *)
(* point:                                                                  *)
(*   "U+0130"  LATIN CAPITAL LETTER I WITH DOT ABOVE (alphabetic, upper)   *)
(*   "U+0307"  COMBINING DOT ABOVE (a mark: neither alphabetic nor cased)  *)
(*                                                                         *)
(* Python ints are unbounded and Python floats are IEEE-754 binary64       *)
(* numbers: a mantissa of 53 bits, exponents from -1074 to 971, signed     *)
(* zeros, infinities and nan.  Every arithmetic operation, every           *)
(* int -> float conversion and every parse rounds to nearest, ties to      *)
(* even.  Numbers beyond the machine word are sequences of limbs.          *)
(*                                                                         *)
(* A file is the bytes it holds.  A file object opened with newline=''     *)
(* passes line ends through as they are and encodes and decodes in the     *)
(* encoding of the locale of its process; it writes the bytes it has       *)
(* buffered when it is closed, and it reads the file a chunk at a time,    *)
(* when the reader asks for a line it does not have.                       *)
(***************************************************************************)
EXTENDS Integers, Sequences, FiniteSets, TLC

\* ------------------------------------------------------------------ bounds
\* Longest token sequence the tagger returns in Spec.
MaxTokens == 3
\* Largest occurrence count of a term in the tables SpecRescale starts from.
MaxCount == 4

\* --------------------------------------------------------------- constants
\* argparse defaults of --range_min and --range_max.
DefaultRangeMin == 1
DefaultRangeMax == 20

\* ------------------------------------------------------------- characters
LowerChars == {"a", "b", "d", "e", "h", "i", "k", "o", "p", "s", "t"}
UpperChars == {"A", "B", "D", "O", "P", "T", "U+0130"}
OtherChars == {"'", "-", ",", "U+0307"}

\* str.lower() of one character; U+0130 lower-cases to two code points.
LowerChar(c) ==
    CASE c = "A" -> <<"a">>
      [] c = "B" -> <<"b">>
      [] c = "D" -> <<"d">>
      [] c = "O" -> <<"o">>
      [] c = "P" -> <<"p">>
      [] c = "T" -> <<"t">>
      [] c = "U+0130" -> <<"i", "U+0307">>
      [] OTHER -> <<c>>

\* str.isalpha() of one character.
IsAlphaChar(c) == c \in LowerChars \cup UpperChars

RECURSIVE StrLower(_)
\* str.lower()
StrLower(s) ==
    IF s = <<>> THEN <<>> ELSE LowerChar(Head(s)) \o StrLower(Tail(s))

\* str.isalpha(): at least one character and all of them alphabetic.
StrIsAlpha(s) ==
    /\ Len(s) > 0
    /\ \A i \in 1..Len(s) : IsAlphaChar(s[i])

\* str.isupper(): at least one cased character and no lower-case one.
StrIsUpper(s) ==
    /\ \E i \in 1..Len(s) : s[i] \in UpperChars
    /\ \A i \in 1..Len(s) : s[i] \notin LowerChars

\* ------------------------------------------------- ints of any size (int)
\* max() and min() of a set of ints.
SetMax(S) == CHOOSE x \in S : \A y \in S : y <= x
SetMin(S) == CHOOSE x \in S : \A y \in S : x <= y

Abs(x) == IF x < 0 THEN -x ELSE x

\* Python's int is unbounded.  A natural number is the sequence of its limbs
\* of LimbBits bits (digits in base Base = 2^LimbBits), least significant
\* first, without a leading zero limb; zero is the empty sequence.
LimbBits == 14
Base == 2 ^ LimbBits

\* a without its leading zero limbs.
BNorm(a) ==
    IF a = <<>> \/ a[Len(a)] # 0 THEN a
    ELSE SubSeq(a, 1, SetMax({0} \cup {i \in 1..Len(a) : a[i] # 0}))

\* The natural number n (below 2^31).
BFromNat(n) == BNorm(<<n % Base, (n \div Base) % Base, n \div (Base * Base)>>)

BZero == <<>>
BOne == <<1>>

Limb(a, i) == IF i <= Len(a) THEN a[i] ELSE 0

RECURSIVE BCmpRange(_, _, _, _)
\* Limbs lo..hi of a against those of b, the upper half first.
BCmpRange(a, b, lo, hi) ==
    IF lo = hi THEN (IF a[lo] < b[lo] THEN -1 ELSE IF a[lo] > b[lo] THEN 1 ELSE 0)
    ELSE LET Upper(c) == IF c # 0 THEN c ELSE BCmpRange(a, b, lo, (lo + hi) \div 2)
         IN  Upper(BCmpRange(a, b, (lo + hi) \div 2 + 1, hi))

\* -1, 0 or 1 as a < b, a = b or a > b.
BCmp(a, b) ==
    IF Len(a) < Len(b) THEN -1
    ELSE IF Len(a) > Len(b) THEN 1
    ELSE IF a = <<>> THEN 0
    ELSE BCmpRange(a, b, 1, Len(a))

\* Limbs and the carry out of them: the lower half L, then the upper half H
\* that took L's carry.
Halves(L, H) == [s |-> L.s \o H.s, c |-> H.c]

\* The limbs x.s with the carry x.c, if any, as the leading limb.
WithCarry(x) == IF x.c = 0 THEN x.s ELSE x.s \o <<x.c>>

RECURSIVE BAddRange(_, _, _, _, _)
\* Limbs lo..hi of a + b + carry c, and the carry out of them: the lower
\* half, then the upper half with the lower half's carry.
BAddRange(a, b, lo, hi, c) ==
    LET Leaf(s) == [s |-> <<s % Base>>, c |-> s \div Base]
        Upper(L) == Halves(L, BAddRange(a, b, (lo + hi) \div 2 + 1, hi, L.c))
    IN  IF lo = hi THEN Leaf(Limb(a, lo) + Limb(b, lo) + c)
        ELSE Upper(BAddRange(a, b, lo, (lo + hi) \div 2, c))

\* a + b
BAdd(a, b) ==
    IF a = <<>> THEN b
    ELSE IF b = <<>> THEN a
    ELSE WithCarry(BAddRange(a, b, 1, IF Len(a) < Len(b) THEN Len(b) ELSE Len(a), 0))

RECURSIVE BSubRange(_, _, _, _, _)
\* Limbs lo..hi of a - b - borrow c, and the borrow out of them.
BSubRange(a, b, lo, hi, c) ==
    LET Leaf(s) == IF s < 0 THEN [s |-> <<s + Base>>, c |-> 1]
                   ELSE [s |-> <<s>>, c |-> 0]
        Upper(L) == Halves(L, BSubRange(a, b, (lo + hi) \div 2 + 1, hi, L.c))
    IN  IF lo = hi THEN Leaf(a[lo] - Limb(b, lo) - c)
        ELSE Upper(BSubRange(a, b, lo, (lo + hi) \div 2, c))

\* a - b  (a >= b)
BSub(a, b) == IF a = <<>> THEN <<>> ELSE BNorm(BSubRange(a, b, 1, Len(a), 0).s)

RECURSIVE BMulSmallRange(_, _, _, _, _)
\* Limbs lo..hi of a * c + carry, and the carry out of them.
BMulSmallRange(a, c, lo, hi, carry) ==
    LET Leaf(p) == [s |-> <<p % Base>>, c |-> p \div Base]
        Upper(L) == Halves(L, BMulSmallRange(a, c, (lo + hi) \div 2 + 1, hi, L.c))
    IN  IF lo = hi THEN Leaf(a[lo] * c + carry)
        ELSE Upper(BMulSmallRange(a, c, lo, (lo + hi) \div 2, carry))

\* a * c for a machine-size c  (0 <= c <= Base)
BMulSmall(a, c) ==
    IF a = <<>> \/ c = 0 THEN <<>>
    ELSE WithCarry(BMulSmallRange(a, c, 1, Len(a), 0))

\* a * Base^k
BShift(a, k) == IF a = <<>> THEN <<>> ELSE [i \in 1..k |-> 0] \o a

RECURSIVE BMulRange(_, _, _, _)
\* a * (limbs lo..hi of b, in their places)
BMulRange(a, b, lo, hi) ==
    IF lo > hi THEN <<>>
    ELSE IF lo = hi THEN BShift(BMulSmall(a, b[lo]), lo - 1)
    ELSE BAdd(BMulRange(a, b, lo, (lo + hi) \div 2),
              BMulRange(a, b, (lo + hi) \div 2 + 1, hi))

\* a * b
BMul(a, b) == BMulRange(a, b, 1, Len(b))

\* a.bit_length() of a limb.
SmallBits(n) ==
    IF n = 0 THEN 0 ELSE CHOOSE k \in 1..LimbBits : 2 ^ (k - 1) <= n /\ n < 2 ^ k

\* a.bit_length()
BitLen(a) ==
    IF a = <<>> THEN 0 ELSE LimbBits * (Len(a) - 1) + SmallBits(a[Len(a)])

\* a * 2^k
BMulPow2(a, k) == BShift(BMulSmall(a, 2 ^ (k % LimbBits)), k \div LimbBits)

\* a // 2^k  (k < LimbBits)
BDivPow2Small(a, k) ==
    BNorm([i \in 1..Len(a) |->
              (a[i] \div 2 ^ k) + (Limb(a, i + 1) % 2 ^ k) * 2 ^ (LimbBits - k)])

\* One limb of a quotient: cur // b for cur < b * Base, b's leading limb
\* at least Base / 2.  The two leading limbs of cur over the leading limb
\* of b overestimate it by at most 2.
QuotDigit(cur, b) ==
    LET Fix(qhat, over) ==
            IF BCmp(over, cur) <= 0 THEN qhat
            ELSE IF BCmp(over, BAdd(cur, b)) <= 0 THEN qhat - 1
            ELSE qhat - 2
        Try(qhat) == Fix(qhat, BMulSmall(b, qhat))
        Cap(est) == Try(IF est > Base - 1 THEN Base - 1 ELSE est)
    IN  Cap((Limb(cur, Len(b) + 1) * Base + Limb(cur, Len(b))) \div b[Len(b)])

\* The number of bits s by which b is shifted to bring its leading limb to
\* Base / 2 or more, and the factor 2^s.
LeadShift(b) == LimbBits - SmallBits(b[Len(b)])
LeadScale(b) == 2 ^ LeadShift(b)

RECURSIVE BDivModFrom(_, _, _, _)
\* Long division, from limb i of a down, r the remainder so far.
BDivModFrom(a, b, i, r) ==
    LET Put(rest, d) == [q |-> rest.q \o <<d>>, r |-> rest.r]
        Take(cur, d) ==
            Put(BDivModFrom(a, b, i - 1, BSub(cur, BMulSmall(b, d))), d)
        Bring(cur) == Take(cur, QuotDigit(cur, b))
    IN  IF i = 0 THEN [q |-> <<>>, r |-> r]
        ELSE Bring(BNorm(<<a[i]>> \o r))

\* divmod(a, b)  (b > 0).  Both are scaled by 2^s to bring b's leading limb
\* to Base / 2 or more; the leading Len(b) - 1 limbs of a are below b, so
\* the division starts with them as the remainder.
BDivMod(a, b) ==
    LET Unscale(x, s) == [q |-> BNorm(x.q), r |-> BDivPow2Small(x.r, s)]
        Start(as, bs, k, s) ==
            Unscale(BDivModFrom(as, bs, Len(as) - k,
                                SubSeq(as, Len(as) - k + 1, Len(as))), s)
        Scaled(as, bs, s) == Start(as, bs, Len(bs) - 1, s)
        Scale(s) == Scaled(BMulSmall(a, 2 ^ s), BMulSmall(b, 2 ^ s), s)
    IN  IF BCmp(a, b) < 0 THEN [q |-> <<>>, r |-> a]
        ELSE Scale(LeadShift(b))

BIsEven(a) == a = <<>> \/ a[1] % 2 = 0

\* 10^4, the largest power of ten the smallest limbs hold.
NearDigits == 4
NearPow == 10 ^ NearDigits

RECURSIVE BPow10(_)
\* 10^k
BPow10(k) ==
    LET Odd(sq) == IF k % 2 = 0 THEN sq ELSE BMulSmall(sq, 10)
        Square(h) == Odd(BMul(h, h))
    IN  IF k <= NearDigits THEN BFromNat(10 ^ k)
        ELSE Square(BPow10(k \div 2))

\* ------------------------------------------------------------------ floats
\* Bits of a float's mantissa, its least exponent (of a subnormal's unit) and
\* the exponent of its largest finite value's unit: IEEE-754 binary64.
MantBits == 53
MinExp == -1074
MaxExp == 971

P52 == BMulPow2(BOne, MantBits - 1)
P53 == BMulPow2(BOne, MantBits)

Finite(neg, m, e) == [cls |-> "finite", neg |-> neg, m |-> m, e |-> e]
FZero(neg) == Finite(neg, BZero, 0)
FInf(neg) == [cls |-> "inf", neg |-> neg, m |-> BZero, e |-> 0]
FNan == [cls |-> "nan", neg |-> FALSE, m |-> BZero, e |-> 0]

IsZero(f) == f.cls = "finite" /\ f.m = BZero

\* Scales num / den * 2^e (num, den > 0), its value unchanged, until
\* 2^52 <= num / den < 2^53, or e = MinExp and num / den < 2^52.  By the
\* operands' bit lengths, 2^k0 * 2^52 < num / den < 2^k0 * 2^54.
FindExp(num, den, e) ==
    LET Fit(n1, d1, e1) ==
            IF BCmp(n1, BMulPow2(d1, MantBits)) >= 0
            THEN [num |-> n1, den |-> BMulSmall(d1, 2), e |-> e1 + 1]
            ELSE [num |-> n1, den |-> d1, e |-> e1]
        By(k) == Fit(IF k < 0 THEN BMulPow2(num, -k) ELSE num,
                     IF k > 0 THEN BMulPow2(den, k) ELSE den,
                     e + k)
        Clamp(k0) == By(IF e + k0 < MinExp THEN MinExp - e ELSE k0)
    IN  Clamp(BitLen(num) - BitLen(den) - MantBits)

\* num / den rounded to an integer, ties to even  (den > 0).
RoundHalfEven(num, den) ==
    LET Up(x, c) == IF c > 0 \/ (c = 0 /\ ~BIsEven(x.q)) THEN BAdd(x.q, BOne)
                    ELSE x.q
        Tie(x) == Up(x, BCmp(BMulSmall(x.r, 2), den))
    IN  Tie(BDivMod(num, den))

\* The float nearest to (-1)^neg * num / den * 2^e  (den > 0), ties to even:
\* the result of every float operation, conversion and parse.  A mantissa
\* rounded up to 2^53 is 2^52 one exponent higher; beyond MaxExp the result
\* is an infinity, below the least subnormal's half it is a zero.
RoundRat(neg, num, den, e) ==
    LET Make(m, e1) == IF e1 > MaxExp THEN FInf(neg)
                       ELSE IF m = BZero THEN FZero(neg)
                       ELSE Finite(neg, m, e1)
        Carry(m, e1, carried) ==
            Make(IF carried THEN P52 ELSE m, IF carried THEN e1 + 1 ELSE e1)
        Pack(m, e1) == Carry(m, e1, m = P53)
        Round(s) == Pack(RoundHalfEven(s.num, s.den), s.e)
    IN  IF num = BZero THEN FZero(neg)
        ELSE Round(FindExp(num, den, e))

\* float(i) of an int.
FromInt(i) == RoundRat(i < 0, BFromNat(Abs(i)), BOne, 0)

\* int / int, Python's true division (y # 0).
TrueDiv(x, y) ==
    RoundRat((x < 0) # (y < 0), BFromNat(Abs(x)), BFromNat(Abs(y)), 0)

\* float * float of finite floats.
FMul(f, g) == RoundRat(f.neg # g.neg, BMul(f.m, g.m), BOne, f.e + g.e)

\* float + float of finite floats: the mantissas a and b on the smaller
\* exponent e are added or, with opposite signs, the smaller is taken from
\* the larger, whose sign the result has; equal magnitudes of opposite sign
\* give +0.0.
FAdd(f, g) ==
    LET Sum(a, b, e, c) ==
            IF f.neg # g.neg /\ c = 0 THEN FZero(FALSE)
            ELSE RoundRat(IF f.neg = g.neg \/ c > 0 THEN f.neg ELSE g.neg,
                          IF f.neg = g.neg THEN BAdd(a, b)
                          ELSE IF c > 0 THEN BSub(a, b)
                          ELSE BSub(b, a),
                          BOne, e)
        Cmp(a, b, e) == Sum(a, b, e, BCmp(a, b))
        Align(e) == Cmp(BMulPow2(f.m, f.e - e), BMulPow2(g.m, g.e - e), e)
    IN  Align(IF f.e < g.e THEN f.e ELSE g.e)

\* float * int: the int is converted, the product is rounded.
FMulInt(f, i) == FMul(f, FromInt(i))

\* float + int: the int is converted, the sum is rounded.
FAddInt(f, i) == FAdd(f, FromInt(i))

\* -1, 0 or 1 as the finite float f is below, equal to or above n / d
\* (d > 0): Python compares a float with an int exactly.
FCmpRat(f, n, d) ==
    LET Signs(sf, sn, c) == IF sf # sn THEN (IF sf < sn THEN -1 ELSE 1)
                            ELSE sf * c
        Mags(fm, nm) ==
            Signs(IF f.m = BZero THEN 0 ELSE IF f.neg THEN -1 ELSE 1,
                  IF n = 0 THEN 0 ELSE IF n < 0 THEN -1 ELSE 1,
                  IF f.e >= 0 THEN BCmp(BMulPow2(fm, f.e), nm)
                  ELSE BCmp(fm, BMulPow2(nm, -f.e)))
    IN  Mags(BMul(f.m, BFromNat(d)), BFromNat(Abs(n)))

FEqInt(f, i) == FCmpRat(f, i, 1) = 0
FLeInt(f, i) == FCmpRat(f, i, 1) <= 0
IntLeF(i, f) == FCmpRat(f, i, 1) >= 0

\* float == float
FEq(f, g) ==
    /\ f.cls # "nan" /\ g.cls # "nan"
    /\ (IsZero(f) /\ IsZero(g)) \/ f = g

\* ------------------------------------------------ float <-> text (repr, float)
DigitChars == <<"0", "1", "2", "3", "4", "5", "6", "7", "8", "9">>

IsDigit(c) == \E d \in 1..10 : DigitChars[d] = c

DigitVal(c) == (CHOOSE d \in 1..10 : DigitChars[d] = c) - 1

RECURSIVE IntDigits(_)
\* str(n) of an int n >= 0.
IntDigits(n) ==
    IF n < 10 THEN <<DigitChars[n + 1]>>
    ELSE IntDigits(n \div 10) \o <<DigitChars[(n % 10) + 1]>>

\* str(i) of an int.
IntStr(i) == IF i < 0 THEN <<"-">> \o IntDigits(-i) ELSE IntDigits(i)

RECURSIVE SmallVal(_)
\* The machine-size int a short string of digits writes.
SmallVal(s) ==
    IF s = <<>> THEN 0
    ELSE 10 * SmallVal(SubSeq(s, 1, Len(s) - 1)) + DigitVal(s[Len(s)])

RECURSIVE DigitsVal(_)
\* The int a string of digits writes, NearDigits digits at a time.
DigitsVal(s) ==
    IF Len(s) <= NearDigits THEN BFromNat(SmallVal(s))
    ELSE BAdd(BMulSmall(DigitsVal(SubSeq(s, 1, Len(s) - NearDigits)), NearPow),
              BFromNat(SmallVal(SubSeq(s, Len(s) - NearDigits + 1, Len(s)))))

Zeros(k) == [i \in 1..k |-> "0"]

\* The digits ds as text.
DigitText(ds) == [i \in 1..Len(ds) |-> DigitChars[ds[i] + 1]]

\* log10(2) = 0.30103 to five places, as Log2Num / Log2Den.
Log2Num == 30103
Log2Den == 100000

RECURSIVE Settle(_, _, _, _)
\* Scales num / den * 10^t (num, den > 0), its value unchanged, by tens
\* until 1 <= num / den < 10; h is scaled as num is.
Settle(num, den, h, t) ==
    IF BCmp(num, BMulSmall(den, 10)) >= 0
    THEN Settle(num, BMulSmall(den, 10), h, t + 1)
    ELSE IF BCmp(num, den) < 0
    THEN Settle(BMulSmall(num, 10), den, BMulSmall(h, 10), t - 1)
    ELSE [num |-> num, den |-> den, h |-> h, t |-> t]

\* num / den (num, den > 0) as n / d * 10^t with 1 <= n / d < 10, and h
\* scaled as num was.  By the operands' bit lengths num / den > 2^(L - 1),
\* so t is about (L - 1) * log10(2); that power of ten is taken out at once
\* and Settle does the rest.
FindDecExp(num, den, h) ==
    LET Out(t0, p) == Settle(IF t0 < 0 THEN BMul(num, p) ELSE num,
                             IF t0 > 0 THEN BMul(den, p) ELSE den,
                             IF t0 < 0 THEN BMul(h, p) ELSE h,
                             t0)
        By(t0) == Out(t0, BPow10(Abs(t0)))
    IN  By(((BitLen(num) - BitLen(den) - 1) * Log2Num) \div Log2Den)

RECURSIVE StripZeros(_)
\* ds without its trailing zeros.
StripZeros(ds) ==
    IF Len(ds) > 1 /\ ds[Len(ds)] = 0 THEN StripZeros(SubSeq(ds, 1, Len(ds) - 1))
    ELSE ds

RECURSIVE IncDigits(_)
\* The digits of ds + 1, as many as ds has; <<>> \o ... carries out as a
\* leading 1 in front (then one digit more).
IncDigits(ds) ==
    IF ds = <<>> THEN <<1>>
    ELSE IF ds[Len(ds)] < 9 THEN SubSeq(ds, 1, Len(ds) - 1) \o <<ds[Len(ds)] + 1>>
    ELSE IncDigits(SubSeq(ds, 1, Len(ds) - 1)) \o <<0>>

\* The decimal d1.d2...dk * 10^t one above the decimal ds * 10^t.
DecAbove(ds, t) ==
    LET Carried(up) == [ds |-> StripZeros(up),
                        t |-> IF Len(up) > Len(ds) THEN t + 1 ELSE t]
    IN  Carried(IncDigits(ds))

RECURSIVE DecDigits(_, _, _, _, _, _, _)
\* The digits of g (finite, > 0), one more per round, until a decimal of
\* that many digits lies in g's rounding interval (so that float() reads it
\* back as g) or maxk digits are out; of the two decimals around g the
\* nearer one is taken.  g is scaled to num / den * 10^t in [1, 10) * 10^t;
\* ds are the first k digits of num / den, r the rest
\* (num * 10^(k-1) = ds * den + r), and h is what one unit of g's mantissa
\* comes to on that scale.  g's neighbours are h above and h below (half of
\* h below a power of two), the interval reaches half way to each and has
\* its ends when g's mantissa is even.
DecDigits(g, den, r, h, ds, t, maxk) ==
    LET Lo == [ds |-> StripZeros(ds), t |-> t]
        Hi == DecAbove(ds, t)
        More(d) ==
            DecDigits(g, den, BSub(BMulSmall(r, 10), BMulSmall(den, d)),
                      BMulSmall(h, 10), Append(ds, d), t, maxk)
        Pick(loOk, hiOk, nearLo) ==
            IF loOk /\ (~hiOk \/ nearLo) THEN Lo
            ELSE IF hiOk THEN Hi
            ELSE IF Len(ds) >= maxk THEN (IF nearLo THEN Lo ELSE Hi)
            ELSE More(QuotDigit(BMulSmall(r, 10), den))
        Ok(gap) == gap < 0 \/ (gap = 0 /\ BIsEven(g.m))
        Near(half) == half < 0 \/ (half = 0 /\ ds[Len(ds)] % 2 = 0)
        Gaps(r2) ==
            Pick(Ok(BCmp(IF g.m = P52 /\ g.e > MinExp THEN BMulSmall(r2, 2) ELSE r2, h)),
                 Ok(BCmp(BMulSmall(BSub(den, r), 2), h)),
                 Near(BCmp(r2, den)))
    IN  Gaps(BMulSmall(r, 2))

\* The decimal of at most maxk digits that stands for g = m * 2^e: the
\* ratio m * 2^e / 1 or m / 2^-e is scaled to [1, 10), and with it the unit of
\* the mantissa; all three are scaled once more to bring the divisor's
\* leading limb to Base / 2 or more.
DecOf(g, maxk) ==
    LET First(num, den, h, t, d1) ==
            DecDigits(g, den, BSub(num, BMulSmall(den, d1)), h, <<d1>>, t, maxk)
        Norm(num, den, h, t) == First(num, den, h, t, QuotDigit(num, den))
        Lead(s, c) ==
            Norm(BMulSmall(s.num, c), BMulSmall(s.den, c), BMulSmall(s.h, c), s.t)
        Dec(s) == Lead(s, LeadScale(s.den))
    IN  Dec(FindDecExp(IF g.e >= 0 THEN BMulPow2(g.m, g.e) ELSE g.m,
                       IF g.e >= 0 THEN BOne ELSE BMulPow2(BOne, -g.e),
                       IF g.e >= 0 THEN BMulPow2(BOne, g.e) ELSE BOne))

\* Digits that always suffice to read a float back.
MaxDigits == 17

\* Mutant of ShortestDec: the number is written with two significant
\* digits (as '%.2g' would), whether or not it reads back.
ShortestDec_TwoDigits(g) == DecOf(g, 2)

\* The shortest decimal d1.d2...dk * 10^t that float() reads back as g
\* (finite, > 0), and among the decimals of that length the one nearest to
\* g: the digits repr(float) prints.
ShortestDec(g) == DecOf(g, MaxDigits)

\* The digits ds with the decimal point after the first decpt of them, with
\* at least one digit on either side ("20.0", "10.5", "0.025").
FixedText(ds, decpt) ==
    IF decpt <= 0 THEN <<"0", ".">> \o Zeros(-decpt) \o DigitText(ds)
    ELSE IF decpt >= Len(ds)
    THEN DigitText(ds) \o Zeros(decpt - Len(ds)) \o <<".", "0">>
    ELSE DigitText(SubSeq(ds, 1, decpt)) \o <<".">>
             \o DigitText(SubSeq(ds, decpt + 1, Len(ds)))

\* The exponent x as repr writes it: a sign and at least two digits.
ExpDigits(xs) == IF Len(xs) < 2 THEN <<"0">> \o xs ELSE xs

\* The digits ds in exponent notation: "1e-05", "1.5e+16".
ExpText(ds, x) ==
    DigitText(<<ds[1]>>)
        \o (IF Len(ds) > 1 THEN <<".">> \o DigitText(Tail(ds)) ELSE <<>>)
        \o <<"e", IF x < 0 THEN "-" ELSE "+">>
        \o ExpDigits(IntDigits(Abs(x)))

\* Positions of the decimal point between which repr writes fixed notation.
MinFixedPoint == -3
MaxFixedPoint == 16

\* repr(f) of a float, which is also str(f) and what csv.writer writes.
FloatRepr(f) ==
    LET Text(dec) ==
            IF dec.t + 1 < MinFixedPoint \/ dec.t + 1 > MaxFixedPoint
            THEN ExpText(dec.ds, dec.t)
            ELSE FixedText(dec.ds, dec.t + 1)
    IN  IF f.cls = "nan" THEN <<"n", "a", "n">>
        ELSE (IF f.neg THEN <<"-">> ELSE <<>>)
             \o (IF f.cls = "inf" THEN <<"i", "n", "f">>
                 ELSE IF f.m = BZero THEN <<"0", ".", "0">>
                 ELSE Text(ShortestDec(f)))

\* The characters of ASCII, code points 0 to 127.  A character that has no
\* spelling of its own in a string is written by its code point.
AsciiChars ==
    {"U+0000", "U+0001", "U+0002", "U+0003", "U+0004", "U+0005", "U+0006",
     "U+0007", "U+0008", "\t", "\n", "U+000B", "\f", "\r", "U+000E",
     "U+000F", "U+0010", "U+0011", "U+0012", "U+0013", "U+0014", "U+0015",
     "U+0016", "U+0017", "U+0018", "U+0019", "U+001A", "U+001B", "U+001C",
     "U+001D", "U+001E", "U+001F", " ", "!", "\"", "#", "$", "%", "&", "'",
     "(", ")", "*", "+", ",", "-", ".", "/", "0", "1", "2", "3", "4", "5",
     "6", "7", "8", "9", ":", ";", "<", "=", ">", "?", "@", "A", "B", "C",
     "D", "E", "F", "G", "H", "I", "J", "K", "L", "M", "N", "O", "P", "Q",
     "R", "S", "T", "U", "V", "W", "X", "Y", "Z", "[", "\\", "]", "^", "_",
     "U+0060", "a", "b", "c", "d", "e", "f", "g", "h", "i", "j", "k", "l", "m",
     "n", "o", "p", "q", "r", "s", "t", "u", "v", "w", "x", "y", "z", "{",
     "|", "}", "~", "U+007F"}

\* Py_ISSPACE: the white space of ASCII.
AsciiSpace == {"\t", "\n", "U+000B", "\f", "\r", " "}

\* Py_UNICODE_ISSPACE outside ASCII.
UnicodeSpace ==
    {"U+0085", "U+00A0", "U+1680", "U+2000", "U+2001", "U+2002", "U+2003",
     "U+2004", "U+2005", "U+2006", "U+2007", "U+2008", "U+2009", "U+200A",
     "U+2028", "U+2029", "U+202F", "U+205F", "U+3000"}

\* Py_UNICODE_TODECIMAL outside ASCII (Unicode 14.0.0): UnicodeDecimals[d + 1]
\* are the characters whose decimal digit value is d.
UnicodeDecimals ==
    <<{"U+0660", "U+06F0", "U+07C0", "U+0966", "U+09E6", "U+0A66", "U+0AE6",
       "U+0B66", "U+0BE6", "U+0C66", "U+0CE6", "U+0D66", "U+0DE6", "U+0E50",
       "U+0ED0", "U+0F20", "U+1040", "U+1090", "U+17E0", "U+1810", "U+1946",
       "U+19D0", "U+1A80", "U+1A90", "U+1B50", "U+1BB0", "U+1C40", "U+1C50",
       "U+A620", "U+A8D0", "U+A900", "U+A9D0", "U+A9F0", "U+AA50", "U+ABF0",
       "U+FF10", "U+104A0", "U+10D30", "U+11066", "U+110F0", "U+11136",
       "U+111D0", "U+112F0", "U+11450", "U+114D0", "U+11650", "U+116C0",
       "U+11730", "U+118E0", "U+11950", "U+11C50", "U+11D50", "U+11DA0",
       "U+16A60", "U+16AC0", "U+16B50", "U+1D7CE", "U+1D7D8", "U+1D7E2",
       "U+1D7EC", "U+1D7F6", "U+1E140", "U+1E2F0", "U+1E950", "U+1FBF0"},
      {"U+0661", "U+06F1", "U+07C1", "U+0967", "U+09E7", "U+0A67", "U+0AE7",
       "U+0B67", "U+0BE7", "U+0C67", "U+0CE7", "U+0D67", "U+0DE7", "U+0E51",
       "U+0ED1", "U+0F21", "U+1041", "U+1091", "U+17E1", "U+1811", "U+1947",
       "U+19D1", "U+1A81", "U+1A91", "U+1B51", "U+1BB1", "U+1C41", "U+1C51",
       "U+A621", "U+A8D1", "U+A901", "U+A9D1", "U+A9F1", "U+AA51", "U+ABF1",
       "U+FF11", "U+104A1", "U+10D31", "U+11067", "U+110F1", "U+11137",
       "U+111D1", "U+112F1", "U+11451", "U+114D1", "U+11651", "U+116C1",
       "U+11731", "U+118E1", "U+11951", "U+11C51", "U+11D51", "U+11DA1",
       "U+16A61", "U+16AC1", "U+16B51", "U+1D7CF", "U+1D7D9", "U+1D7E3",
       "U+1D7ED", "U+1D7F7", "U+1E141", "U+1E2F1", "U+1E951", "U+1FBF1"},
      {"U+0662", "U+06F2", "U+07C2", "U+0968", "U+09E8", "U+0A68", "U+0AE8",
       "U+0B68", "U+0BE8", "U+0C68", "U+0CE8", "U+0D68", "U+0DE8", "U+0E52",
       "U+0ED2", "U+0F22", "U+1042", "U+1092", "U+17E2", "U+1812", "U+1948",
       "U+19D2", "U+1A82", "U+1A92", "U+1B52", "U+1BB2", "U+1C42", "U+1C52",
       "U+A622", "U+A8D2", "U+A902", "U+A9D2", "U+A9F2", "U+AA52", "U+ABF2",
       "U+FF12", "U+104A2", "U+10D32", "U+11068", "U+110F2", "U+11138",
       "U+111D2", "U+112F2", "U+11452", "U+114D2", "U+11652", "U+116C2",
       "U+11732", "U+118E2", "U+11952", "U+11C52", "U+11D52", "U+11DA2",
       "U+16A62", "U+16AC2", "U+16B52", "U+1D7D0", "U+1D7DA", "U+1D7E4",
       "U+1D7EE", "U+1D7F8", "U+1E142", "U+1E2F2", "U+1E952", "U+1FBF2"},
      {"U+0663", "U+06F3", "U+07C3", "U+0969", "U+09E9", "U+0A69", "U+0AE9",
       "U+0B69", "U+0BE9", "U+0C69", "U+0CE9", "U+0D69", "U+0DE9", "U+0E53",
       "U+0ED3", "U+0F23", "U+1043", "U+1093", "U+17E3", "U+1813", "U+1949",
       "U+19D3", "U+1A83", "U+1A93", "U+1B53", "U+1BB3", "U+1C43", "U+1C53",
       "U+A623", "U+A8D3", "U+A903", "U+A9D3", "U+A9F3", "U+AA53", "U+ABF3",
       "U+FF13", "U+104A3", "U+10D33", "U+11069", "U+110F3", "U+11139",
       "U+111D3", "U+112F3", "U+11453", "U+114D3", "U+11653", "U+116C3",
       "U+11733", "U+118E3", "U+11953", "U+11C53", "U+11D53", "U+11DA3",
       "U+16A63", "U+16AC3", "U+16B53", "U+1D7D1", "U+1D7DB", "U+1D7E5",
       "U+1D7EF", "U+1D7F9", "U+1E143", "U+1E2F3", "U+1E953", "U+1FBF3"},
      {"U+0664", "U+06F4", "U+07C4", "U+096A", "U+09EA", "U+0A6A", "U+0AEA",
       "U+0B6A", "U+0BEA", "U+0C6A", "U+0CEA", "U+0D6A", "U+0DEA", "U+0E54",
       "U+0ED4", "U+0F24", "U+1044", "U+1094", "U+17E4", "U+1814", "U+194A",
       "U+19D4", "U+1A84", "U+1A94", "U+1B54", "U+1BB4", "U+1C44", "U+1C54",
       "U+A624", "U+A8D4", "U+A904", "U+A9D4", "U+A9F4", "U+AA54", "U+ABF4",
       "U+FF14", "U+104A4", "U+10D34", "U+1106A", "U+110F4", "U+1113A",
       "U+111D4", "U+112F4", "U+11454", "U+114D4", "U+11654", "U+116C4",
       "U+11734", "U+118E4", "U+11954", "U+11C54", "U+11D54", "U+11DA4",
       "U+16A64", "U+16AC4", "U+16B54", "U+1D7D2", "U+1D7DC", "U+1D7E6",
       "U+1D7F0", "U+1D7FA", "U+1E144", "U+1E2F4", "U+1E954", "U+1FBF4"},
      {"U+0665", "U+06F5", "U+07C5", "U+096B", "U+09EB", "U+0A6B", "U+0AEB",
       "U+0B6B", "U+0BEB", "U+0C6B", "U+0CEB", "U+0D6B", "U+0DEB", "U+0E55",
       "U+0ED5", "U+0F25", "U+1045", "U+1095", "U+17E5", "U+1815", "U+194B",
       "U+19D5", "U+1A85", "U+1A95", "U+1B55", "U+1BB5", "U+1C45", "U+1C55",
       "U+A625", "U+A8D5", "U+A905", "U+A9D5", "U+A9F5", "U+AA55", "U+ABF5",
       "U+FF15", "U+104A5", "U+10D35", "U+1106B", "U+110F5", "U+1113B",
       "U+111D5", "U+112F5", "U+11455", "U+114D5", "U+11655", "U+116C5",
       "U+11735", "U+118E5", "U+11955", "U+11C55", "U+11D55", "U+11DA5",
       "U+16A65", "U+16AC5", "U+16B55", "U+1D7D3", "U+1D7DD", "U+1D7E7",
       "U+1D7F1", "U+1D7FB", "U+1E145", "U+1E2F5", "U+1E955", "U+1FBF5"},
      {"U+0666", "U+06F6", "U+07C6", "U+096C", "U+09EC", "U+0A6C", "U+0AEC",
       "U+0B6C", "U+0BEC", "U+0C6C", "U+0CEC", "U+0D6C", "U+0DEC", "U+0E56",
       "U+0ED6", "U+0F26", "U+1046", "U+1096", "U+17E6", "U+1816", "U+194C",
       "U+19D6", "U+1A86", "U+1A96", "U+1B56", "U+1BB6", "U+1C46", "U+1C56",
       "U+A626", "U+A8D6", "U+A906", "U+A9D6", "U+A9F6", "U+AA56", "U+ABF6",
       "U+FF16", "U+104A6", "U+10D36", "U+1106C", "U+110F6", "U+1113C",
       "U+111D6", "U+112F6", "U+11456", "U+114D6", "U+11656", "U+116C6",
       "U+11736", "U+118E6", "U+11956", "U+11C56", "U+11D56", "U+11DA6",
       "U+16A66", "U+16AC6", "U+16B56", "U+1D7D4", "U+1D7DE", "U+1D7E8",
       "U+1D7F2", "U+1D7FC", "U+1E146", "U+1E2F6", "U+1E956", "U+1FBF6"},
      {"U+0667", "U+06F7", "U+07C7", "U+096D", "U+09ED", "U+0A6D", "U+0AED",
       "U+0B6D", "U+0BED", "U+0C6D", "U+0CED", "U+0D6D", "U+0DED", "U+0E57",
       "U+0ED7", "U+0F27", "U+1047", "U+1097", "U+17E7", "U+1817", "U+194D",
       "U+19D7", "U+1A87", "U+1A97", "U+1B57", "U+1BB7", "U+1C47", "U+1C57",
       "U+A627", "U+A8D7", "U+A907", "U+A9D7", "U+A9F7", "U+AA57", "U+ABF7",
       "U+FF17", "U+104A7", "U+10D37", "U+1106D", "U+110F7", "U+1113D",
       "U+111D7", "U+112F7", "U+11457", "U+114D7", "U+11657", "U+116C7",
       "U+11737", "U+118E7", "U+11957", "U+11C57", "U+11D57", "U+11DA7",
       "U+16A67", "U+16AC7", "U+16B57", "U+1D7D5", "U+1D7DF", "U+1D7E9",
       "U+1D7F3", "U+1D7FD", "U+1E147", "U+1E2F7", "U+1E957", "U+1FBF7"},
      {"U+0668", "U+06F8", "U+07C8", "U+096E", "U+09EE", "U+0A6E", "U+0AEE",
       "U+0B6E", "U+0BEE", "U+0C6E", "U+0CEE", "U+0D6E", "U+0DEE", "U+0E58",
       "U+0ED8", "U+0F28", "U+1048", "U+1098", "U+17E8", "U+1818", "U+194E",
       "U+19D8", "U+1A88", "U+1A98", "U+1B58", "U+1BB8", "U+1C48", "U+1C58",
       "U+A628", "U+A8D8", "U+A908", "U+A9D8", "U+A9F8", "U+AA58", "U+ABF8",
       "U+FF18", "U+104A8", "U+10D38", "U+1106E", "U+110F8", "U+1113E",
       "U+111D8", "U+112F8", "U+11458", "U+114D8", "U+11658", "U+116C8",
       "U+11738", "U+118E8", "U+11958", "U+11C58", "U+11D58", "U+11DA8",
       "U+16A68", "U+16AC8", "U+16B58", "U+1D7D6", "U+1D7E0", "U+1D7EA",
       "U+1D7F4", "U+1D7FE", "U+1E148", "U+1E2F8", "U+1E958", "U+1FBF8"},
      {"U+0669", "U+06F9", "U+07C9", "U+096F", "U+09EF", "U+0A6F", "U+0AEF",
       "U+0B6F", "U+0BEF", "U+0C6F", "U+0CEF", "U+0D6F", "U+0DEF", "U+0E59",
       "U+0ED9", "U+0F29", "U+1049", "U+1099", "U+17E9", "U+1819", "U+194F",
       "U+19D9", "U+1A89", "U+1A99", "U+1B59", "U+1BB9", "U+1C49", "U+1C59",
       "U+A629", "U+A8D9", "U+A909", "U+A9D9", "U+A9F9", "U+AA59", "U+ABF9",
       "U+FF19", "U+104A9", "U+10D39", "U+1106F", "U+110F9", "U+1113F",
       "U+111D9", "U+112F9", "U+11459", "U+114D9", "U+11659", "U+116C9",
       "U+11739", "U+118E9", "U+11959", "U+11C59", "U+11D59", "U+11DA9",
       "U+16A69", "U+16AC9", "U+16B59", "U+1D7D7", "U+1D7E1", "U+1D7EB",
       "U+1D7F5", "U+1D7FF", "U+1E149", "U+1E2F9", "U+1E959", "U+1FBF9"}>>

\* The characters float() passes over around the number.
Whitespace == AsciiSpace \cup UnicodeSpace

\* Py_UNICODE_TODECIMAL of a character outside ASCII: its decimal digit
\* value, -1 if it has none.
ToDecimal(c) ==
    LET Row(rows) == IF rows = {} THEN -1 ELSE SetMin(rows) - 1
    IN  Row({d \in 1..10 : c \in UnicodeDecimals[d]})

\* What _PyUnicode_TransformDecimalAndSpaceToASCII makes of one character
\* of a string that is not all ASCII: code points below 127 stay, white
\* space becomes a space, a decimal digit its ASCII digit, anything else
\* a question mark.
TransformChar(c) ==
    LET Digit(d) == IF d < 0 THEN "?" ELSE DigitChars[d + 1]
    IN  IF c \in AsciiChars \ {"U+007F"} THEN c
        ELSE IF c \in UnicodeSpace THEN " "
        ELSE Digit(ToDecimal(c))

\* _PyUnicode_TransformDecimalAndSpaceToASCII(s), the first step of
\* float(s): an ASCII string is returned as it is; any other is
\* transformed character by character and ends with the first character
\* that has no ASCII counterpart, turned into a question mark.
TransformDecimalAndSpaceToASCII(s) ==
    LET Cut(t, odd) == IF odd = {} THEN t ELSE SubSeq(t, 1, SetMin(odd))
        Map(t) == Cut(t, {i \in 1..Len(s) : t[i] = "?" /\ s[i] # "?"})
    IN  IF \A i \in 1..Len(s) : s[i] \in AsciiChars THEN s
        ELSE Map([i \in 1..Len(s) |-> TransformChar(s[i])])

\* s without the white space float() passes over at its two ends.
Strip(s) ==
    LET Ink(ink) == IF ink = {} THEN <<>> ELSE SubSeq(s, SetMin(ink), SetMax(ink))
    IN  Ink({i \in 1..Len(s) : s[i] \notin Whitespace})

\* Lower case of the letters float() knows.
FoldChar(c) ==
    CASE c = "I" -> "i"
      [] c = "N" -> "n"
      [] c = "F" -> "f"
      [] c = "A" -> "a"
      [] c = "T" -> "t"
      [] c = "Y" -> "y"
      [] c = "E" -> "e"
      [] OTHER -> c

Fold(s) == [i \in 1..Len(s) |-> FoldChar(s[i])]

\* s has a character of C at position i.
HasAt(s, i, C) == i <= Len(s) /\ s[i] \in C

\* Reads digit (["_"] digit)* of s from position i on: the digits read and
\* the position after them.  An underscore is read between two digits only.
ScanDigits(s, i) ==
    LET Read(k) == \/ IsDigit(s[k])
                   \/ /\ s[k] = "_"
                      /\ k > i /\ IsDigit(s[k - 1])
                      /\ k < Len(s) /\ IsDigit(s[k + 1])
        Upto(j) == [ds |-> SelectSeq(SubSeq(s, i, j - 1), IsDigit), j |-> j]
    IN  Upto(SetMin({k \in i..(Len(s) + 1) : k = Len(s) + 1 \/ ~Read(k)}))

\* Decimal exponents beyond which every number but zero is an infinity,
\* and below which every number is a zero.
MaxDecExp == 310
MinDecExp == -330
\* An exponent of more than ExpDigitsMax digits is beyond both.
ExpDigitsMax == 6

\* The exponent the digits ds write, 10^ExpDigitsMax if they write more.
ExpVal(ds) ==
    IF \E i \in 1..(Len(ds) - ExpDigitsMax) : ds[i] # "0" THEN 10 ^ ExpDigitsMax
    ELSE IF Len(ds) > ExpDigitsMax
    THEN SmallVal(SubSeq(ds, Len(ds) - ExpDigitsMax + 1, Len(ds)))
    ELSE SmallVal(ds)

\* float(s) of a string: ok = FALSE where float raises ValueError, else the
\* float nearest to the number written.  Unicode decimal digits and white
\* space are first turned into their ASCII counterparts; white space around
\* the number is dropped; a sign may lead; "inf", "infinity" and "nan" are read in any
\* case; the number is digits[.digits] or .digits, with single underscores
\* between digits, and an optional exponent e[sign]digits.  The number is
\* the int D its digits write times 10^x.
ParseFloat(str) ==
    LET Value(neg, D, n, x) ==
            IF D = BZero \/ x + n < MinDecExp THEN FZero(neg)
            ELSE IF x > MaxDecExp THEN FInf(neg)
            ELSE RoundRat(neg,
                          IF x >= 0 THEN BMul(D, BPow10(x)) ELSE D,
                          IF x >= 0 THEN BOne ELSE BPow10(-x),
                          0)
        Num(neg, body, ip, fp, xneg, xp) ==
            IF Len(ip.ds) + Len(fp.ds) = 0 \/ Len(xp.ds) = 0 \/ xp.j # Len(body) + 1
            THEN [ok |-> FALSE, f |-> FNan]
            ELSE [ok |-> TRUE,
                  f |-> Value(neg, DigitsVal(ip.ds \o fp.ds), Len(ip.ds \o fp.ds),
                              (IF xneg THEN -ExpVal(xp.ds) ELSE ExpVal(xp.ds))
                                  - Len(fp.ds))]
        Exp(neg, body, ip, fp, hasExp, xsigned) ==
            Num(neg, body, ip, fp, xsigned /\ body[fp.j + 1] = "-",
                IF hasExp
                THEN ScanDigits(body, IF xsigned THEN fp.j + 2 ELSE fp.j + 1)
                ELSE [ds |-> <<"0">>, j |-> fp.j])
        Mark(neg, body, ip, fp) ==
            Exp(neg, body, ip, fp, HasAt(body, fp.j, {"e"}),
                HasAt(body, fp.j, {"e"}) /\ HasAt(body, fp.j + 1, {"+", "-"}))
        Frac(neg, body, ip) ==
            Mark(neg, body, ip,
                 IF HasAt(body, ip.j, {"."}) THEN ScanDigits(body, ip.j + 1)
                 ELSE [ds |-> <<>>, j |-> ip.j])
        Body(neg, body) ==
            IF body \in {<<"i", "n", "f">>, <<"i", "n", "f", "i", "n", "i", "t", "y">>}
            THEN [ok |-> TRUE, f |-> FInf(neg)]
            ELSE IF body = <<"n", "a", "n">> THEN [ok |-> TRUE, f |-> FNan]
            ELSE Frac(neg, body, ScanDigits(body, 1))
        Signed(s, signed) ==
            Body(signed /\ s[1] = "-", IF signed THEN Tail(s) ELSE s)
        Start(s) == Signed(s, HasAt(s, 1, {"+", "-"}))
    IN  Start(Fold(Strip(TransformDecimalAndSpaceToASCII(str))))

\* --------------------------------------------------------- tokens and terms
PROPN == "PROPN"

Tok(text, pos, stop, punct) ==
    [text |-> text, pos_ |-> pos, is_stop |-> stop, is_punct |-> punct]

\* The tokens the tagger (spaCy) may return: surface text, coarse
\* part-of-speech, stop-word flag, punctuation flag.
TokenVocab ==
    { Tok(<<"D", "a">>, PROPN, FALSE, FALSE),
      Tok(<<"d", "a">>, PROPN, FALSE, FALSE),
      Tok(<<"P", "k">>, PROPN, FALSE, FALSE),
      Tok(<<"D", "A">>, PROPN, FALSE, FALSE),
      Tok(<<"O", "'", "b">>, PROPN, FALSE, FALSE),
      Tok(<<"U+0130", "s">>, PROPN, FALSE, FALSE),
      Tok(<<"T", "h", "e">>, PROPN, TRUE, FALSE),
      Tok(<<"-">>, PROPN, FALSE, TRUE),
      Tok(<<"P", "k">>, "NOUN", FALSE, FALSE) }

RECURSIVE SeqsUpTo(_, _)
\* The sequences over S of length at most n.
SeqsUpTo(S, n) ==
    IF n = 0 THEN {<<>>}
    ELSE LET shorter == SeqsUpTo(S, n - 1)
         IN  shorter \cup {Append(q, x) : q \in {r \in shorter : Len(r) = n - 1}, x \in S}

Docs == SeqsUpTo(TokenVocab, MaxTokens)

\* Mutant of IsProperNoun: the stop-word test is left out.
IsProperNoun_NoStopTest(token) ==
    /\ token.pos_ = PROPN
    /\ StrIsUpper(token.text) = FALSE
    /\ ~token.is_punct

\* The condition of the comprehension of _get_proper_nouns.
IsProperNoun(token) ==
    /\ token.pos_ = PROPN
    /\ StrIsUpper(token.text) = FALSE
    /\ ~token.is_stop
    /\ ~token.is_punct

RECURSIVE _get_proper_nouns(_)
\* [token.text for token in doc if <condition>]
_get_proper_nouns(doc) ==
    IF doc = <<>> THEN <<>>
    ELSE (IF IsProperNoun(Head(doc)) THEN <<Head(doc).text>> ELSE <<>>)
             \o _get_proper_nouns(Tail(doc))

RECURSIVE _normalize_words(_)
\* [word.lower() for word in words if word.isalpha()]
_normalize_words(words) ==
    IF words = <<>> THEN <<>>
    ELSE (IF StrIsAlpha(Head(words)) THEN <<StrLower(Head(words))>> ELSE <<>>)
             \o _normalize_words(Tail(words))

\* ------------------------------------------------------- Counter (a dict)
\* A dict is the sequence of its entries in insertion order; a value is an
\* int or a float.
IntVal(n) == [t |-> "int", n |-> n]
FloatVal(f) == [t |-> "float", f |-> f]
Entry(k, v) == [k |-> k, v |-> v]

Keys(d) == {d[i].k : i \in 1..Len(d)}

KeyIndex(d, k) == CHOOSE i \in 1..Len(d) : d[i].k = k

RECURSIVE CounterUpdate(_, _)
\* Counter.update(words) on the Counter c: one increment per element, a new
\* key is appended.
CounterUpdate(c, words) ==
    IF words = <<>> THEN c
    ELSE LET w == Head(words)
             c1 == IF w \in Keys(c)
                   THEN [c EXCEPT ![KeyIndex(c, w)].v = IntVal(@.n + 1)]
                   ELSE Append(c, Entry(w, IntVal(1)))
         IN  CounterUpdate(c1, Tail(words))

\* Counter(words)
Counter(words) == CounterUpdate(<<>>, words)

\* ---------------------------------------------------------- _rescale_freqs
Refs == {1, 2}
NoRef == 0

RECURSIVE RescaleLoop_DivByMax(_, _, _, _, _, _)
\* Mutant of RescaleLoop: the divisor is max_word_count, not the spread.
RescaleLoop_DivByMax(d, i, min_word_count, max_word_count, rmin, rmax) ==
    IF i > Len(d) THEN [raised |-> "none", dict |-> d]
    ELSE RescaleLoop_DivByMax(
             [d EXCEPT ![i].v =
                 FloatVal(FAddInt(FMulInt(TrueDiv(d[i].v.n - min_word_count,
                                                  max_word_count),
                                          rmax - rmin),
                                  rmin))],
             i + 1, min_word_count, max_word_count, rmin, rmax)

RECURSIVE RescaleLoop(_, _, _, _, _, _)
\* The for loop of _rescale_freqs over word_freqs.items(), from item i on:
\* each item's value (current_word_count) is replaced in the dict d itself
\* by (current_word_count - min_word_count) / (max_word_count -
\* min_word_count) * (range_max - range_min) + range_min.
RescaleLoop(d, i, min_word_count, max_word_count, rmin, rmax) ==
    IF i > Len(d) THEN [raised |-> "none", dict |-> d]
    ELSE IF max_word_count - min_word_count = 0
         THEN [raised |-> "ZeroDivisionError", dict |-> d]
    ELSE RescaleLoop(
             [d EXCEPT ![i].v =
                 FloatVal(FAddInt(FMulInt(TrueDiv(d[i].v.n - min_word_count,
                                                  max_word_count - min_word_count),
                                          rmax - rmin),
                                  rmin))],
             i + 1, min_word_count, max_word_count, rmin, rmax)

\* The values() of the dict d, as a set.
Values(d) == {d[i].v.n : i \in 1..Len(d)}

\* Mutant of _rescale_freqs: an empty table is returned as it is instead
\* of raising.
_rescale_freqs_EmptyTolerated(h, word_freqs, rmin, rmax) ==
    LET Return(r) ==
            [raised |-> r.raised,
             heap |-> [h EXCEPT ![word_freqs] = r.dict],
             ret |-> IF r.raised = "none" THEN word_freqs ELSE NoRef]
        Loop(word_counts) ==
            IF word_counts = {}
            THEN [raised |-> "none", heap |-> h, ret |-> word_freqs]
            ELSE Return(RescaleLoop(h[word_freqs], 1, SetMin(word_counts),
                                    SetMax(word_counts), rmin, rmax))
    IN  Loop(Values(h[word_freqs]))

\* Mutant of _rescale_freqs: the weights go into a new dict, the table
\* given is left alone.
_rescale_freqs_NewMapping(h, word_freqs, rmin, rmax) ==
    LET Return(r, fresh) ==
            [raised |-> r.raised,
             heap |-> IF r.raised = "none" THEN [h EXCEPT ![fresh] = r.dict]
                      ELSE h,
             ret |-> IF r.raised = "none" THEN fresh ELSE NoRef]
        Loop(word_counts) ==
            IF word_counts = {}
            THEN [raised |-> "ValueError", heap |-> h, ret |-> NoRef]
            ELSE Return(RescaleLoop(h[word_freqs], 1, SetMin(word_counts),
                                    SetMax(word_counts), rmin, rmax),
                        CHOOSE r \in Refs : r # word_freqs)
    IN  Loop(Values(h[word_freqs]))

\* _rescale_freqs(word_freqs, range_min, range_max) on the heap h, word_freqs
\* a reference: the heap after the call, the reference returned, and the
\* exception raised ("none": the call returned).  max() of no values raises
\* ValueError.
_rescale_freqs(h, word_freqs, rmin, rmax) ==
    LET Return(r) ==
            [raised |-> r.raised,
             heap |-> [h EXCEPT ![word_freqs] = r.dict],
             ret |-> IF r.raised = "none" THEN word_freqs ELSE NoRef]
        Loop(word_counts) ==
            IF word_counts = {}
            THEN [raised |-> "ValueError", heap |-> h, ret |-> NoRef]
            ELSE Return(RescaleLoop(h[word_freqs], 1, SetMin(word_counts),
                                    SetMax(word_counts), rmin, rmax))
    IN  Loop(Values(h[word_freqs]))

\* ------------------------------------------------------- csv writer, reader
Comma == ","
Quote == "\""
CR == "\r"
LF == "\n"
\* csv.writer's default lineterminator.
CRLF == <<CR, LF>>

S_word == <<"w", "o", "r", "d">>
S_boost_value == <<"b", "o", "o", "s", "t", "_", "v", "a", "l", "u", "e">>

\* A cell of a row: a string, an int, a float, or None.
StrCell(s) == [t |-> "str", s |-> s]
NoneCell == [t |-> "None"]

RECURSIVE Concat(_)
\* The strings of ss joined end to end.
Concat(ss) ==
    IF Len(ss) = 0 THEN <<>>
    ELSE IF Len(ss) = 1 THEN ss[1]
    ELSE Concat(SubSeq(ss, 1, Len(ss) \div 2))
             \o Concat(SubSeq(ss, Len(ss) \div 2 + 1, Len(ss)))

\* Every quote character of s doubled.
DoubleQuotes(s) ==
    Concat([i \in 1..Len(s) |-> IF s[i] = Quote THEN <<Quote, Quote>> ELSE <<s[i]>>])

\* One field as csv.writer writes it (QUOTE_MINIMAL): quoted when it holds
\* the delimiter, the quote character or a character of the lineterminator.
CsvField(s) ==
    IF \E i \in 1..Len(s) : s[i] \in {Comma, Quote, CR, LF}
    THEN <<Quote>> \o DoubleQuotes(s) \o <<Quote>>
    ELSE s

\* str(x) of a cell: a string is written as it is, a number by str(), None
\* as the empty string.
CellStr(x) ==
    IF x.t = "str" THEN x.s
    ELSE IF x.t = "int" THEN IntStr(x.n)
    ELSE IF x.t = "float" THEN FloatRepr(x.f)
    ELSE <<>>

\* The fields joined by the delimiter.
JoinFields(fields) ==
    Concat([i \in 1..Len(fields) |->
               (IF i = 1 THEN <<>> ELSE <<Comma>>) \o CsvField(fields[i])])

\* csv_writer.writerow(cells): the text written, the lineterminator
\* included.  A row of one empty field is written as a pair of quotes.
WriteRowLine(cells) ==
    LET Line(fields) == IF fields = <<<<>>>> THEN <<Quote, Quote>> \o CRLF
                        ELSE JoinFields(fields) \o CRLF
    IN  Line([i \in 1..Len(cells) |-> CellStr(cells[i])])

\* The first position from i on of a character of C in s; Len(s) + 1 if
\* there is none.
NextIn(s, i, C) ==
    CHOOSE p \in i..(Len(s) + 1) :
        /\ p = Len(s) + 1 \/ s[p] \in C
        /\ \A q \in i..(p - 1) : s[q] \notin C

\* ------------------------------------------------------------ bytes, codecs
\* The 256 bytes in the order of their values.  A byte below 128 bears the
\* name of the ASCII character it encodes, a byte from 128 on is written by
\* its value.
Bytes ==
    <<"U+0000", "U+0001", "U+0002", "U+0003", "U+0004", "U+0005", "U+0006",
      "U+0007", "U+0008", "\t", "\n", "U+000B", "\f", "\r", "U+000E",
      "U+000F", "U+0010", "U+0011", "U+0012", "U+0013", "U+0014", "U+0015",
      "U+0016", "U+0017", "U+0018", "U+0019", "U+001A", "U+001B", "U+001C",
      "U+001D", "U+001E", "U+001F", " ", "!", "\"", "#", "$", "%", "&", "'",
      "(", ")", "*", "+", ",", "-", ".", "/", "0", "1", "2", "3", "4", "5",
      "6", "7", "8", "9", ":", ";", "<", "=", ">", "?", "@", "A", "B", "C",
      "D", "E", "F", "G", "H", "I", "J", "K", "L", "M", "N", "O", "P", "Q",
      "R", "S", "T", "U", "V", "W", "X", "Y", "Z", "[", "\\", "]", "^", "_",
      "U+0060", "a", "b", "c", "d", "e", "f", "g", "h", "i", "j", "k", "l",
      "m", "n", "o", "p", "q", "r", "s", "t", "u", "v", "w", "x", "y", "z",
      "{", "|", "}", "~", "U+007F", "0x80", "0x81", "0x82", "0x83", "0x84",
      "0x85", "0x86", "0x87", "0x88", "0x89", "0x8A", "0x8B", "0x8C", "0x8D",
      "0x8E", "0x8F", "0x90", "0x91", "0x92", "0x93", "0x94", "0x95", "0x96",
      "0x97", "0x98", "0x99", "0x9A", "0x9B", "0x9C", "0x9D", "0x9E", "0x9F",
      "0xA0", "0xA1", "0xA2", "0xA3", "0xA4", "0xA5", "0xA6", "0xA7", "0xA8",
      "0xA9", "0xAA", "0xAB", "0xAC", "0xAD", "0xAE", "0xAF", "0xB0", "0xB1",
      "0xB2", "0xB3", "0xB4", "0xB5", "0xB6", "0xB7", "0xB8", "0xB9", "0xBA",
      "0xBB", "0xBC", "0xBD", "0xBE", "0xBF", "0xC0", "0xC1", "0xC2", "0xC3",
      "0xC4", "0xC5", "0xC6", "0xC7", "0xC8", "0xC9", "0xCA", "0xCB", "0xCC",
      "0xCD", "0xCE", "0xCF", "0xD0", "0xD1", "0xD2", "0xD3", "0xD4", "0xD5",
      "0xD6", "0xD7", "0xD8", "0xD9", "0xDA", "0xDB", "0xDC", "0xDD", "0xDE",
      "0xDF", "0xE0", "0xE1", "0xE2", "0xE3", "0xE4", "0xE5", "0xE6", "0xE7",
      "0xE8", "0xE9", "0xEA", "0xEB", "0xEC", "0xED", "0xEE", "0xEF", "0xF0",
      "0xF1", "0xF2", "0xF3", "0xF4", "0xF5", "0xF6", "0xF7", "0xF8", "0xF9",
      "0xFA", "0xFB", "0xFC", "0xFD", "0xFE", "0xFF">>

\* The value of a byte.
ByteNo(b) == CHOOSE n \in 0..255 : Bytes[n + 1] = b

\* The bytes from 128 on.
HighBytes == {Bytes[n + 1] : n \in 128..255}

\* The code points of the characters of the model outside ASCII.
CodePoints ==
    {<<"U+0085", 133>>, <<"U+00A0", 160>>, <<"U+0130", 304>>,
     <<"U+0307", 775>>, <<"U+0660", 1632>>, <<"U+0661", 1633>>,
     <<"U+0662", 1634>>, <<"U+0663", 1635>>, <<"U+0664", 1636>>,
     <<"U+0665", 1637>>, <<"U+0666", 1638>>, <<"U+0667", 1639>>,
     <<"U+0668", 1640>>, <<"U+0669", 1641>>, <<"U+06F0", 1776>>,
     <<"U+06F1", 1777>>, <<"U+06F2", 1778>>, <<"U+06F3", 1779>>,
     <<"U+06F4", 1780>>, <<"U+06F5", 1781>>, <<"U+06F6", 1782>>,
     <<"U+06F7", 1783>>, <<"U+06F8", 1784>>, <<"U+06F9", 1785>>,
     <<"U+07C0", 1984>>, <<"U+07C1", 1985>>, <<"U+07C2", 1986>>,
     <<"U+07C3", 1987>>, <<"U+07C4", 1988>>, <<"U+07C5", 1989>>,
     <<"U+07C6", 1990>>, <<"U+07C7", 1991>>, <<"U+07C8", 1992>>,
     <<"U+07C9", 1993>>, <<"U+0966", 2406>>, <<"U+0967", 2407>>,
     <<"U+0968", 2408>>, <<"U+0969", 2409>>, <<"U+096A", 2410>>,
     <<"U+096B", 2411>>, <<"U+096C", 2412>>, <<"U+096D", 2413>>,
     <<"U+096E", 2414>>, <<"U+096F", 2415>>, <<"U+09E6", 2534>>,
     <<"U+09E7", 2535>>, <<"U+09E8", 2536>>, <<"U+09E9", 2537>>,
     <<"U+09EA", 2538>>, <<"U+09EB", 2539>>, <<"U+09EC", 2540>>,
     <<"U+09ED", 2541>>, <<"U+09EE", 2542>>, <<"U+09EF", 2543>>,
     <<"U+0A66", 2662>>, <<"U+0A67", 2663>>, <<"U+0A68", 2664>>,
     <<"U+0A69", 2665>>, <<"U+0A6A", 2666>>, <<"U+0A6B", 2667>>,
     <<"U+0A6C", 2668>>, <<"U+0A6D", 2669>>, <<"U+0A6E", 2670>>,
     <<"U+0A6F", 2671>>, <<"U+0AE6", 2790>>, <<"U+0AE7", 2791>>,
     <<"U+0AE8", 2792>>, <<"U+0AE9", 2793>>, <<"U+0AEA", 2794>>,
     <<"U+0AEB", 2795>>, <<"U+0AEC", 2796>>, <<"U+0AED", 2797>>,
     <<"U+0AEE", 2798>>, <<"U+0AEF", 2799>>, <<"U+0B66", 2918>>,
     <<"U+0B67", 2919>>, <<"U+0B68", 2920>>, <<"U+0B69", 2921>>,
     <<"U+0B6A", 2922>>, <<"U+0B6B", 2923>>, <<"U+0B6C", 2924>>,
     <<"U+0B6D", 2925>>, <<"U+0B6E", 2926>>, <<"U+0B6F", 2927>>,
     <<"U+0BE6", 3046>>, <<"U+0BE7", 3047>>, <<"U+0BE8", 3048>>,
     <<"U+0BE9", 3049>>, <<"U+0BEA", 3050>>, <<"U+0BEB", 3051>>,
     <<"U+0BEC", 3052>>, <<"U+0BED", 3053>>, <<"U+0BEE", 3054>>,
     <<"U+0BEF", 3055>>, <<"U+0C66", 3174>>, <<"U+0C67", 3175>>,
     <<"U+0C68", 3176>>, <<"U+0C69", 3177>>, <<"U+0C6A", 3178>>,
     <<"U+0C6B", 3179>>, <<"U+0C6C", 3180>>, <<"U+0C6D", 3181>>,
     <<"U+0C6E", 3182>>, <<"U+0C6F", 3183>>, <<"U+0CE6", 3302>>,
     <<"U+0CE7", 3303>>, <<"U+0CE8", 3304>>, <<"U+0CE9", 3305>>,
     <<"U+0CEA", 3306>>, <<"U+0CEB", 3307>>, <<"U+0CEC", 3308>>,
     <<"U+0CED", 3309>>, <<"U+0CEE", 3310>>, <<"U+0CEF", 3311>>,
     <<"U+0D66", 3430>>, <<"U+0D67", 3431>>, <<"U+0D68", 3432>>,
     <<"U+0D69", 3433>>, <<"U+0D6A", 3434>>, <<"U+0D6B", 3435>>,
     <<"U+0D6C", 3436>>, <<"U+0D6D", 3437>>, <<"U+0D6E", 3438>>,
     <<"U+0D6F", 3439>>, <<"U+0DE6", 3558>>, <<"U+0DE7", 3559>>,
     <<"U+0DE8", 3560>>, <<"U+0DE9", 3561>>, <<"U+0DEA", 3562>>,
     <<"U+0DEB", 3563>>, <<"U+0DEC", 3564>>, <<"U+0DED", 3565>>,
     <<"U+0DEE", 3566>>, <<"U+0DEF", 3567>>, <<"U+0E50", 3664>>,
     <<"U+0E51", 3665>>, <<"U+0E52", 3666>>, <<"U+0E53", 3667>>,
     <<"U+0E54", 3668>>, <<"U+0E55", 3669>>, <<"U+0E56", 3670>>,
     <<"U+0E57", 3671>>, <<"U+0E58", 3672>>, <<"U+0E59", 3673>>,
     <<"U+0ED0", 3792>>, <<"U+0ED1", 3793>>, <<"U+0ED2", 3794>>,
     <<"U+0ED3", 3795>>, <<"U+0ED4", 3796>>, <<"U+0ED5", 3797>>,
     <<"U+0ED6", 3798>>, <<"U+0ED7", 3799>>, <<"U+0ED8", 3800>>,
     <<"U+0ED9", 3801>>, <<"U+0F20", 3872>>, <<"U+0F21", 3873>>,
     <<"U+0F22", 3874>>, <<"U+0F23", 3875>>, <<"U+0F24", 3876>>,
     <<"U+0F25", 3877>>, <<"U+0F26", 3878>>, <<"U+0F27", 3879>>,
     <<"U+0F28", 3880>>, <<"U+0F29", 3881>>, <<"U+1040", 4160>>,
     <<"U+1041", 4161>>, <<"U+1042", 4162>>, <<"U+1043", 4163>>,
     <<"U+1044", 4164>>, <<"U+1045", 4165>>, <<"U+1046", 4166>>,
     <<"U+1047", 4167>>, <<"U+1048", 4168>>, <<"U+1049", 4169>>,
     <<"U+1090", 4240>>, <<"U+1091", 4241>>, <<"U+1092", 4242>>,
     <<"U+1093", 4243>>, <<"U+1094", 4244>>, <<"U+1095", 4245>>,
     <<"U+1096", 4246>>, <<"U+1097", 4247>>, <<"U+1098", 4248>>,
     <<"U+1099", 4249>>, <<"U+1680", 5760>>, <<"U+17E0", 6112>>,
     <<"U+17E1", 6113>>, <<"U+17E2", 6114>>, <<"U+17E3", 6115>>,
     <<"U+17E4", 6116>>, <<"U+17E5", 6117>>, <<"U+17E6", 6118>>,
     <<"U+17E7", 6119>>, <<"U+17E8", 6120>>, <<"U+17E9", 6121>>,
     <<"U+1810", 6160>>, <<"U+1811", 6161>>, <<"U+1812", 6162>>,
     <<"U+1813", 6163>>, <<"U+1814", 6164>>, <<"U+1815", 6165>>,
     <<"U+1816", 6166>>, <<"U+1817", 6167>>, <<"U+1818", 6168>>,
     <<"U+1819", 6169>>, <<"U+1946", 6470>>, <<"U+1947", 6471>>,
     <<"U+1948", 6472>>, <<"U+1949", 6473>>, <<"U+194A", 6474>>,
     <<"U+194B", 6475>>, <<"U+194C", 6476>>, <<"U+194D", 6477>>,
     <<"U+194E", 6478>>, <<"U+194F", 6479>>, <<"U+19D0", 6608>>,
     <<"U+19D1", 6609>>, <<"U+19D2", 6610>>, <<"U+19D3", 6611>>,
     <<"U+19D4", 6612>>, <<"U+19D5", 6613>>, <<"U+19D6", 6614>>,
     <<"U+19D7", 6615>>, <<"U+19D8", 6616>>, <<"U+19D9", 6617>>,
     <<"U+1A80", 6784>>, <<"U+1A81", 6785>>, <<"U+1A82", 6786>>,
     <<"U+1A83", 6787>>, <<"U+1A84", 6788>>, <<"U+1A85", 6789>>,
     <<"U+1A86", 6790>>, <<"U+1A87", 6791>>, <<"U+1A88", 6792>>,
     <<"U+1A89", 6793>>, <<"U+1A90", 6800>>, <<"U+1A91", 6801>>,
     <<"U+1A92", 6802>>, <<"U+1A93", 6803>>, <<"U+1A94", 6804>>,
     <<"U+1A95", 6805>>, <<"U+1A96", 6806>>, <<"U+1A97", 6807>>,
     <<"U+1A98", 6808>>, <<"U+1A99", 6809>>, <<"U+1B50", 6992>>,
     <<"U+1B51", 6993>>, <<"U+1B52", 6994>>, <<"U+1B53", 6995>>,
     <<"U+1B54", 6996>>, <<"U+1B55", 6997>>, <<"U+1B56", 6998>>,
     <<"U+1B57", 6999>>, <<"U+1B58", 7000>>, <<"U+1B59", 7001>>,
     <<"U+1BB0", 7088>>, <<"U+1BB1", 7089>>, <<"U+1BB2", 7090>>,
     <<"U+1BB3", 7091>>, <<"U+1BB4", 7092>>, <<"U+1BB5", 7093>>,
     <<"U+1BB6", 7094>>, <<"U+1BB7", 7095>>, <<"U+1BB8", 7096>>,
     <<"U+1BB9", 7097>>, <<"U+1C40", 7232>>, <<"U+1C41", 7233>>,
     <<"U+1C42", 7234>>, <<"U+1C43", 7235>>, <<"U+1C44", 7236>>,
     <<"U+1C45", 7237>>, <<"U+1C46", 7238>>, <<"U+1C47", 7239>>,
     <<"U+1C48", 7240>>, <<"U+1C49", 7241>>, <<"U+1C50", 7248>>,
     <<"U+1C51", 7249>>, <<"U+1C52", 7250>>, <<"U+1C53", 7251>>,
     <<"U+1C54", 7252>>, <<"U+1C55", 7253>>, <<"U+1C56", 7254>>,
     <<"U+1C57", 7255>>, <<"U+1C58", 7256>>, <<"U+1C59", 7257>>,
     <<"U+2000", 8192>>, <<"U+2001", 8193>>, <<"U+2002", 8194>>,
     <<"U+2003", 8195>>, <<"U+2004", 8196>>, <<"U+2005", 8197>>,
     <<"U+2006", 8198>>, <<"U+2007", 8199>>, <<"U+2008", 8200>>,
     <<"U+2009", 8201>>, <<"U+200A", 8202>>, <<"U+2028", 8232>>,
     <<"U+2029", 8233>>, <<"U+202F", 8239>>, <<"U+205F", 8287>>,
     <<"U+3000", 12288>>, <<"U+A620", 42528>>, <<"U+A621", 42529>>,
     <<"U+A622", 42530>>, <<"U+A623", 42531>>, <<"U+A624", 42532>>,
     <<"U+A625", 42533>>, <<"U+A626", 42534>>, <<"U+A627", 42535>>,
     <<"U+A628", 42536>>, <<"U+A629", 42537>>, <<"U+A8D0", 43216>>,
     <<"U+A8D1", 43217>>, <<"U+A8D2", 43218>>, <<"U+A8D3", 43219>>,
     <<"U+A8D4", 43220>>, <<"U+A8D5", 43221>>, <<"U+A8D6", 43222>>,
     <<"U+A8D7", 43223>>, <<"U+A8D8", 43224>>, <<"U+A8D9", 43225>>,
     <<"U+A900", 43264>>, <<"U+A901", 43265>>, <<"U+A902", 43266>>,
     <<"U+A903", 43267>>, <<"U+A904", 43268>>, <<"U+A905", 43269>>,
     <<"U+A906", 43270>>, <<"U+A907", 43271>>, <<"U+A908", 43272>>,
     <<"U+A909", 43273>>, <<"U+A9D0", 43472>>, <<"U+A9D1", 43473>>,
     <<"U+A9D2", 43474>>, <<"U+A9D3", 43475>>, <<"U+A9D4", 43476>>,
     <<"U+A9D5", 43477>>, <<"U+A9D6", 43478>>, <<"U+A9D7", 43479>>,
     <<"U+A9D8", 43480>>, <<"U+A9D9", 43481>>, <<"U+A9F0", 43504>>,
     <<"U+A9F1", 43505>>, <<"U+A9F2", 43506>>, <<"U+A9F3", 43507>>,
     <<"U+A9F4", 43508>>, <<"U+A9F5", 43509>>, <<"U+A9F6", 43510>>,
     <<"U+A9F7", 43511>>, <<"U+A9F8", 43512>>, <<"U+A9F9", 43513>>,
     <<"U+AA50", 43600>>, <<"U+AA51", 43601>>, <<"U+AA52", 43602>>,
     <<"U+AA53", 43603>>, <<"U+AA54", 43604>>, <<"U+AA55", 43605>>,
     <<"U+AA56", 43606>>, <<"U+AA57", 43607>>, <<"U+AA58", 43608>>,
     <<"U+AA59", 43609>>, <<"U+ABF0", 44016>>, <<"U+ABF1", 44017>>,
     <<"U+ABF2", 44018>>, <<"U+ABF3", 44019>>, <<"U+ABF4", 44020>>,
     <<"U+ABF5", 44021>>, <<"U+ABF6", 44022>>, <<"U+ABF7", 44023>>,
     <<"U+ABF8", 44024>>, <<"U+ABF9", 44025>>, <<"U+FF10", 65296>>,
     <<"U+FF11", 65297>>, <<"U+FF12", 65298>>, <<"U+FF13", 65299>>,
     <<"U+FF14", 65300>>, <<"U+FF15", 65301>>, <<"U+FF16", 65302>>,
     <<"U+FF17", 65303>>, <<"U+FF18", 65304>>, <<"U+FF19", 65305>>,
     <<"U+104A0", 66720>>, <<"U+104A1", 66721>>, <<"U+104A2", 66722>>,
     <<"U+104A3", 66723>>, <<"U+104A4", 66724>>, <<"U+104A5", 66725>>,
     <<"U+104A6", 66726>>, <<"U+104A7", 66727>>, <<"U+104A8", 66728>>,
     <<"U+104A9", 66729>>, <<"U+10D30", 68912>>, <<"U+10D31", 68913>>,
     <<"U+10D32", 68914>>, <<"U+10D33", 68915>>, <<"U+10D34", 68916>>,
     <<"U+10D35", 68917>>, <<"U+10D36", 68918>>, <<"U+10D37", 68919>>,
     <<"U+10D38", 68920>>, <<"U+10D39", 68921>>, <<"U+11066", 69734>>,
     <<"U+11067", 69735>>, <<"U+11068", 69736>>, <<"U+11069", 69737>>,
     <<"U+1106A", 69738>>, <<"U+1106B", 69739>>, <<"U+1106C", 69740>>,
     <<"U+1106D", 69741>>, <<"U+1106E", 69742>>, <<"U+1106F", 69743>>,
     <<"U+110F0", 69872>>, <<"U+110F1", 69873>>, <<"U+110F2", 69874>>,
     <<"U+110F3", 69875>>, <<"U+110F4", 69876>>, <<"U+110F5", 69877>>,
     <<"U+110F6", 69878>>, <<"U+110F7", 69879>>, <<"U+110F8", 69880>>,
     <<"U+110F9", 69881>>, <<"U+11136", 69942>>, <<"U+11137", 69943>>,
     <<"U+11138", 69944>>, <<"U+11139", 69945>>, <<"U+1113A", 69946>>,
     <<"U+1113B", 69947>>, <<"U+1113C", 69948>>, <<"U+1113D", 69949>>,
     <<"U+1113E", 69950>>, <<"U+1113F", 69951>>, <<"U+111D0", 70096>>,
     <<"U+111D1", 70097>>, <<"U+111D2", 70098>>, <<"U+111D3", 70099>>,
     <<"U+111D4", 70100>>, <<"U+111D5", 70101>>, <<"U+111D6", 70102>>,
     <<"U+111D7", 70103>>, <<"U+111D8", 70104>>, <<"U+111D9", 70105>>,
     <<"U+112F0", 70384>>, <<"U+112F1", 70385>>, <<"U+112F2", 70386>>,
     <<"U+112F3", 70387>>, <<"U+112F4", 70388>>, <<"U+112F5", 70389>>,
     <<"U+112F6", 70390>>, <<"U+112F7", 70391>>, <<"U+112F8", 70392>>,
     <<"U+112F9", 70393>>, <<"U+11450", 70736>>, <<"U+11451", 70737>>,
     <<"U+11452", 70738>>, <<"U+11453", 70739>>, <<"U+11454", 70740>>,
     <<"U+11455", 70741>>, <<"U+11456", 70742>>, <<"U+11457", 70743>>,
     <<"U+11458", 70744>>, <<"U+11459", 70745>>, <<"U+114D0", 70864>>,
     <<"U+114D1", 70865>>, <<"U+114D2", 70866>>, <<"U+114D3", 70867>>,
     <<"U+114D4", 70868>>, <<"U+114D5", 70869>>, <<"U+114D6", 70870>>,
     <<"U+114D7", 70871>>, <<"U+114D8", 70872>>, <<"U+114D9", 70873>>,
     <<"U+11650", 71248>>, <<"U+11651", 71249>>, <<"U+11652", 71250>>,
     <<"U+11653", 71251>>, <<"U+11654", 71252>>, <<"U+11655", 71253>>,
     <<"U+11656", 71254>>, <<"U+11657", 71255>>, <<"U+11658", 71256>>,
     <<"U+11659", 71257>>, <<"U+116C0", 71360>>, <<"U+116C1", 71361>>,
     <<"U+116C2", 71362>>, <<"U+116C3", 71363>>, <<"U+116C4", 71364>>,
     <<"U+116C5", 71365>>, <<"U+116C6", 71366>>, <<"U+116C7", 71367>>,
     <<"U+116C8", 71368>>, <<"U+116C9", 71369>>, <<"U+11730", 71472>>,
     <<"U+11731", 71473>>, <<"U+11732", 71474>>, <<"U+11733", 71475>>,
     <<"U+11734", 71476>>, <<"U+11735", 71477>>, <<"U+11736", 71478>>,
     <<"U+11737", 71479>>, <<"U+11738", 71480>>, <<"U+11739", 71481>>,
     <<"U+118E0", 71904>>, <<"U+118E1", 71905>>, <<"U+118E2", 71906>>,
     <<"U+118E3", 71907>>, <<"U+118E4", 71908>>, <<"U+118E5", 71909>>,
     <<"U+118E6", 71910>>, <<"U+118E7", 71911>>, <<"U+118E8", 71912>>,
     <<"U+118E9", 71913>>, <<"U+11950", 72016>>, <<"U+11951", 72017>>,
     <<"U+11952", 72018>>, <<"U+11953", 72019>>, <<"U+11954", 72020>>,
     <<"U+11955", 72021>>, <<"U+11956", 72022>>, <<"U+11957", 72023>>,
     <<"U+11958", 72024>>, <<"U+11959", 72025>>, <<"U+11C50", 72784>>,
     <<"U+11C51", 72785>>, <<"U+11C52", 72786>>, <<"U+11C53", 72787>>,
     <<"U+11C54", 72788>>, <<"U+11C55", 72789>>, <<"U+11C56", 72790>>,
     <<"U+11C57", 72791>>, <<"U+11C58", 72792>>, <<"U+11C59", 72793>>,
     <<"U+11D50", 73040>>, <<"U+11D51", 73041>>, <<"U+11D52", 73042>>,
     <<"U+11D53", 73043>>, <<"U+11D54", 73044>>, <<"U+11D55", 73045>>,
     <<"U+11D56", 73046>>, <<"U+11D57", 73047>>, <<"U+11D58", 73048>>,
     <<"U+11D59", 73049>>, <<"U+11DA0", 73120>>, <<"U+11DA1", 73121>>,
     <<"U+11DA2", 73122>>, <<"U+11DA3", 73123>>, <<"U+11DA4", 73124>>,
     <<"U+11DA5", 73125>>, <<"U+11DA6", 73126>>, <<"U+11DA7", 73127>>,
     <<"U+11DA8", 73128>>, <<"U+11DA9", 73129>>, <<"U+16A60", 92768>>,
     <<"U+16A61", 92769>>, <<"U+16A62", 92770>>, <<"U+16A63", 92771>>,
     <<"U+16A64", 92772>>, <<"U+16A65", 92773>>, <<"U+16A66", 92774>>,
     <<"U+16A67", 92775>>, <<"U+16A68", 92776>>, <<"U+16A69", 92777>>,
     <<"U+16AC0", 92864>>, <<"U+16AC1", 92865>>, <<"U+16AC2", 92866>>,
     <<"U+16AC3", 92867>>, <<"U+16AC4", 92868>>, <<"U+16AC5", 92869>>,
     <<"U+16AC6", 92870>>, <<"U+16AC7", 92871>>, <<"U+16AC8", 92872>>,
     <<"U+16AC9", 92873>>, <<"U+16B50", 93008>>, <<"U+16B51", 93009>>,
     <<"U+16B52", 93010>>, <<"U+16B53", 93011>>, <<"U+16B54", 93012>>,
     <<"U+16B55", 93013>>, <<"U+16B56", 93014>>, <<"U+16B57", 93015>>,
     <<"U+16B58", 93016>>, <<"U+16B59", 93017>>, <<"U+1D7CE", 120782>>,
     <<"U+1D7CF", 120783>>, <<"U+1D7D0", 120784>>, <<"U+1D7D1", 120785>>,
     <<"U+1D7D2", 120786>>, <<"U+1D7D3", 120787>>, <<"U+1D7D4", 120788>>,
     <<"U+1D7D5", 120789>>, <<"U+1D7D6", 120790>>, <<"U+1D7D7", 120791>>,
     <<"U+1D7D8", 120792>>, <<"U+1D7D9", 120793>>, <<"U+1D7DA", 120794>>,
     <<"U+1D7DB", 120795>>, <<"U+1D7DC", 120796>>, <<"U+1D7DD", 120797>>,
     <<"U+1D7DE", 120798>>, <<"U+1D7DF", 120799>>, <<"U+1D7E0", 120800>>,
     <<"U+1D7E1", 120801>>, <<"U+1D7E2", 120802>>, <<"U+1D7E3", 120803>>,
     <<"U+1D7E4", 120804>>, <<"U+1D7E5", 120805>>, <<"U+1D7E6", 120806>>,
     <<"U+1D7E7", 120807>>, <<"U+1D7E8", 120808>>, <<"U+1D7E9", 120809>>,
     <<"U+1D7EA", 120810>>, <<"U+1D7EB", 120811>>, <<"U+1D7EC", 120812>>,
     <<"U+1D7ED", 120813>>, <<"U+1D7EE", 120814>>, <<"U+1D7EF", 120815>>,
     <<"U+1D7F0", 120816>>, <<"U+1D7F1", 120817>>, <<"U+1D7F2", 120818>>,
     <<"U+1D7F3", 120819>>, <<"U+1D7F4", 120820>>, <<"U+1D7F5", 120821>>,
     <<"U+1D7F6", 120822>>, <<"U+1D7F7", 120823>>, <<"U+1D7F8", 120824>>,
     <<"U+1D7F9", 120825>>, <<"U+1D7FA", 120826>>, <<"U+1D7FB", 120827>>,
     <<"U+1D7FC", 120828>>, <<"U+1D7FD", 120829>>, <<"U+1D7FE", 120830>>,
     <<"U+1D7FF", 120831>>, <<"U+1E140", 123200>>, <<"U+1E141", 123201>>,
     <<"U+1E142", 123202>>, <<"U+1E143", 123203>>, <<"U+1E144", 123204>>,
     <<"U+1E145", 123205>>, <<"U+1E146", 123206>>, <<"U+1E147", 123207>>,
     <<"U+1E148", 123208>>, <<"U+1E149", 123209>>, <<"U+1E2F0", 123632>>,
     <<"U+1E2F1", 123633>>, <<"U+1E2F2", 123634>>, <<"U+1E2F3", 123635>>,
     <<"U+1E2F4", 123636>>, <<"U+1E2F5", 123637>>, <<"U+1E2F6", 123638>>,
     <<"U+1E2F7", 123639>>, <<"U+1E2F8", 123640>>, <<"U+1E2F9", 123641>>,
     <<"U+1E950", 125264>>, <<"U+1E951", 125265>>, <<"U+1E952", 125266>>,
     <<"U+1E953", 125267>>, <<"U+1E954", 125268>>, <<"U+1E955", 125269>>,
     <<"U+1E956", 125270>>, <<"U+1E957", 125271>>, <<"U+1E958", 125272>>,
     <<"U+1E959", 125273>>, <<"U+1FBF0", 130032>>, <<"U+1FBF1", 130033>>,
     <<"U+1FBF2", 130034>>, <<"U+1FBF3", 130035>>, <<"U+1FBF4", 130036>>,
     <<"U+1FBF5", 130037>>, <<"U+1FBF6", 130038>>, <<"U+1FBF7", 130039>>,
     <<"U+1FBF8", 130040>>, <<"U+1FBF9", 130041>>}

\* A character the model has no name for.
Unnamed == "U+????"

\* ord(c)
Ord(c) ==
    IF c \in AsciiChars THEN ByteNo(c)
    ELSE (CHOOSE p \in CodePoints : p[1] = c)[2]

\* chr(n)
Chr(n) ==
    IF n < 128 THEN Bytes[n + 1]
    ELSE IF \E p \in CodePoints : p[2] = n
    THEN (CHOOSE p \in CodePoints : p[2] = n)[1]
    ELSE Unnamed

\* The UTF-8 encoding of the code point n (no surrogate is among the
\* characters of the model).
Utf8(n) ==
    IF n < 128 THEN <<Bytes[n + 1]>>
    ELSE IF n < 2048
    THEN <<Bytes[192 + (n \div 64) + 1], Bytes[128 + (n % 64) + 1]>>
    ELSE IF n < 65536
    THEN <<Bytes[224 + (n \div 4096) + 1], Bytes[128 + ((n \div 64) % 64) + 1],
           Bytes[128 + (n % 64) + 1]>>
    ELSE <<Bytes[240 + (n \div 262144) + 1], Bytes[128 + ((n \div 4096) % 64) + 1],
           Bytes[128 + ((n \div 64) % 64) + 1], Bytes[128 + (n % 64) + 1]>>

\* The encodings open() takes from the locale: UTF-8, and ASCII as under
\* the C locale.
Encodings == {"utf-8", "ascii"}

\* text.encode(enc) as the file object does it on write(): the bytes, or
\* UnicodeEncodeError (ok is FALSE).
Encode(enc, text) ==
    IF \A i \in 1..Len(text) : text[i] \in AsciiChars
    THEN [ok |-> TRUE, bytes |-> text]
    ELSE IF enc = "ascii" THEN [ok |-> FALSE, bytes |-> <<>>]
    ELSE [ok |-> TRUE, bytes |-> Concat([i \in 1..Len(text) |-> Utf8(Ord(text[i]))])]

RECURSIVE Utf8Decode(_, _, _)
\* The incremental UTF-8 decoder on the bytes bs from position i on: the
\* text, the bytes of a character cut short at the end of bs, which the
\* decoder keeps for the next call (pend), and whether it raises
\* UnicodeDecodeError (err): at a byte that cannot start a character, at
\* one that cannot continue the character begun, and, when the call is the
\* final one, at a character cut short.
Utf8Decode(bs, i, final) ==
    LET Failure == [text |-> <<>>, pend |-> <<>>, err |-> TRUE]
        Push(t, rest) == [text |-> t \o rest.text, pend |-> rest.pend, err |-> rest.err]
        No(k) == ByteNo(bs[i + k - 1]) - 128
        Lead(b) ==
            LET need == IF b \in 194..223 THEN 2
                        ELSE IF b \in 224..239 THEN 3
                        ELSE IF b \in 240..244 THEN 4
                        ELSE 0
                have == IF Len(bs) - i + 1 < need THEN Len(bs) - i + 1 ELSE need
                lo2 == IF b = 224 THEN 32 ELSE IF b = 240 THEN 16 ELSE 0
                hi2 == IF b = 237 THEN 31 ELSE IF b = 244 THEN 15 ELSE 63
                Continues(k) == IF k = 2 THEN No(k) \in lo2..hi2 ELSE No(k) \in 0..63
                cp == IF need = 2 THEN (b - 192) * 64 + No(2)
                      ELSE IF need = 3 THEN (b - 224) * 4096 + No(2) * 64 + No(3)
                      ELSE (b - 240) * 262144 + No(2) * 4096 + No(3) * 64 + No(4)
            IN  IF need = 0 \/ \E k \in 2..have : ~Continues(k) THEN Failure
                ELSE IF have < need
                THEN IF final THEN Failure
                     ELSE [text |-> <<>>, pend |-> SubSeq(bs, i, Len(bs)), err |-> FALSE]
                ELSE Push(<<Chr(cp)>>, Utf8Decode(bs, i + need, final))
        Ascii(p) ==
            IF p > i THEN Push(SubSeq(bs, i, p - 1), Utf8Decode(bs, p, final))
            ELSE Lead(ByteNo(bs[i]))
    IN  IF i > Len(bs) THEN [text |-> <<>>, pend |-> <<>>, err |-> FALSE]
        ELSE Ascii(NextIn(bs, i, HighBytes))

\* decoder.decode(bs, final) of the incremental decoder of enc.
Decode(enc, bs, final) ==
    IF enc = "ascii"
    THEN IF \E i \in 1..Len(bs) : bs[i] \in HighBytes
         THEN [text |-> <<>>, pend |-> <<>>, err |-> TRUE]
         ELSE [text |-> bs, pend |-> <<>>, err |-> FALSE]
    ELSE Utf8Decode(bs, 1, final)

\* ------------------------------------------------------- file object, reader
\* The file object reads the file in chunks of at most this many bytes.
ChunkSize == 8192

\* What a file object opened for reading has got from its file: the number
\* of bytes read (pos), the text decoded from them (text) and the bytes of
\* a character not yet complete (pend).  In the text, EOF stands at every
\* place where a read found the file at its end.
EOF == "EOF"
NewReader == [pos |-> 0, text |-> <<>>, pend |-> <<>>]

\* One read by the file object rd, of the bytes the file holds beyond
\* rd.pos (a chunk, empty at the end of the file), decoded in enc: the file
\* object afterwards, or UnicodeDecodeError (err).
FileRead(enc, rd, chunk) ==
    LET Got(dec) ==
            [err |-> dec.err,
             reader |-> [pos |-> rd.pos + Len(chunk),
                         text |-> rd.text \o dec.text
                                     \o (IF chunk = <<>> THEN <<EOF>> ELSE <<>>),
                         pend |-> dec.pend]]
    IN  Got(Decode(enc, rd.pend \o chunk, chunk = <<>>))

\* The chunk a read at position pos gets from a file of these bytes.
ChunkAt(bytes, pos) ==
    SubSeq(bytes, pos + 1,
           IF Len(bytes) > pos + ChunkSize THEN pos + ChunkSize ELSE Len(bytes))

\* Length of the line end at position p: "\r\n" is one line end, "\r" and
\* "\n" are each one (the file is opened with newline='').
TermLen(s, p) == IF s[p] = CR /\ p < Len(s) /\ s[p + 1] = LF THEN 2 ELSE 1

\* The part of the text s the file object has passed on, line by line:
\* what ends with a line end or with the end of the file.  A "\r" at the
\* end of s is held back until the next read, which may bring its "\n".
Delivered(s) ==
    SubSeq(s, 1, SetMax({0} \cup {p \in 1..Len(s) :
                                    \/ s[p] \in {LF, EOF}
                                    \/ s[p] = CR /\ p < Len(s)}))

\* The read marked by the EOF at position p found no line begun: the file
\* object has no line to pass on, and the iteration over its lines stops.
\* (After any other character the read ends the line begun, or releases
\* the "\r" held back.)
StopsAt(s, p) == p = 1 \/ s[p - 1] \in {LF, EOF}

\* s without the marks of the reads at the end of the file.
NoEOF(s) == SelectSeq(s, LAMBDA c : c # EOF)

\* csv.field_size_limit(): the longest field csv.reader reads.
FieldSizeLimit == 131072

\* csv.reader in the state IN_FIELD at position i, cur the field so far:
\* the field runs up to the next delimiter or end of a line (a quote
\* character is an ordinary character here).  val is the field, next the
\* position after what was read, more whether another field of the record
\* follows, err whether the field outgrew the field size limit (csv.Error),
\* open whether the record goes on beyond what has been passed on.
Unquoted(s, i, cur) ==
    LET Upto(p) ==
            [val |-> cur \o SubSeq(s, i, p - 1),
             next |-> IF p > Len(s) THEN p
                      ELSE IF s[p] \in {Comma, EOF} THEN p + 1
                      ELSE p + TermLen(s, p),
             more |-> p <= Len(s) /\ s[p] = Comma,
             err |-> Len(cur) + (p - i) > FieldSizeLimit,
             open |-> FALSE]
    IN  Upto(NextIn(s, i, {Comma, CR, LF, EOF}))

RECURSIVE Quoted(_, _, _)
\* csv.reader in the state IN_QUOTED_FIELD at position i: everything up to
\* the next quote character belongs to the field, line ends included; a
\* doubled quote is one quote character of the field; after the closing
\* quote the field goes on as an unquoted one.  When the iteration over
\* the lines stops, the open field ends the record.
Quoted(s, i, cur) ==
    LET Field(val, next, open) ==
            [val |-> val, next |-> next, more |-> FALSE,
             err |-> Len(val) > FieldSizeLimit, open |-> open]
        Upto(q, stops) ==
            IF stops # {}
            THEN Field(cur \o NoEOF(SubSeq(s, i, SetMin(stops) - 1)),
                       SetMin(stops) + 1, FALSE)
            ELSE IF q > Len(s)
            THEN Field(cur \o NoEOF(SubSeq(s, i, q - 1)), q, TRUE)
            ELSE IF q < Len(s) /\ s[q + 1] = Quote
            THEN Quoted(s, q + 2, cur \o NoEOF(SubSeq(s, i, q)))
            ELSE Unquoted(s, q + 1, cur \o NoEOF(SubSeq(s, i, q - 1)))
        Find(q) == Upto(q, {e \in i..(q - 1) : s[e] = EOF /\ StopsAt(s, e)})
    IN  Find(NextIn(s, i, {Quote}))

\* csv.reader in the state START_FIELD at position i.
ReadField(s, i) ==
    IF i <= Len(s) /\ s[i] = Quote THEN Quoted(s, i + 1, <<>>)
    ELSE Unquoted(s, i, <<>>)

RECURSIVE ReadFields(_, _)
\* The fields of one record from position i on; err: a field outgrew the
\* field size limit, the record is not read.
ReadFields(s, i) ==
    LET Join(val, rest) ==
            [row |-> <<val>> \o rest.row, next |-> rest.next, err |-> rest.err,
             open |-> rest.open]
        Got(f) == IF f.more /\ ~f.err THEN Join(f.val, ReadFields(s, f.next))
                  ELSE [row |-> <<f.val>>, next |-> f.next, err |-> f.err,
                        open |-> f.open]
    IN  Got(ReadField(s, i))

\* csv.reader in the state START_RECORD at position i <= Len(s): one record
\* and the position after it; an empty line reads as no fields.
ReadRecord(s, i) ==
    IF s[i] \in {CR, LF}
    THEN [row |-> <<>>, next |-> i + TermLen(s, i), err |-> FALSE, open |-> FALSE]
    ELSE ReadFields(s, i)

\* What next(csv_reader) gives, call by call.
RowOf(row) == [t |-> "row", row |-> row]
StopIteration == [t |-> "StopIteration", row |-> <<>>]
Error == [t |-> "Error", row |-> <<>>]
NeedsRead == [t |-> "read", row |-> <<>>]

RECURSIVE ReadRows(_, _)
\* What the calls of next(csv_reader) give from position i of the text s
\* on: a record, StopIteration where a read found the file at its end and
\* no record begun, csv.Error at the record that holds a field beyond the
\* field size limit; where s ends, the reader needs another read of the
\* file.
ReadRows(s, i) ==
    LET Got(r) == IF r.err THEN <<Error>>
                  ELSE IF r.open THEN <<NeedsRead>>
                  ELSE <<RowOf(r.row)>> \o ReadRows(s, r.next)
    IN  IF i > Len(s) THEN <<NeedsRead>>
        ELSE IF s[i] = EOF
        THEN (IF StopsAt(s, i) THEN <<StopIteration>> ELSE <<>>) \o ReadRows(s, i + 1)
        ELSE Got(ReadRecord(s, i))

\* fieldnames has a column called name.
HasColumn(fieldnames, name) == \E j \in 1..Len(fieldnames) : fieldnames[j] = name

\* The column row[name] is read from: dict(zip(fieldnames, row)) keeps the
\* last of the columns called name.
Column(fieldnames, name) ==
    SetMax({j \in 1..Len(fieldnames) : fieldnames[j] = name})

\* row[name] of the dict csv.DictReader makes of a record: the field of
\* the column, None (restval) when the record is too short to have it.
RowGet(fieldnames, row, name) ==
    LET At(j) == IF j > Len(row) THEN NoneCell ELSE StrCell(row[j])
    IN  At(Column(fieldnames, name))

\* DictReader._fieldnames: None, or the record read for it.
NoFieldnames == [t |-> "None", l |-> <<>>]
Fieldnames(row) == [t |-> "list", l |-> row]

RECURSIVE AddHotWordsLoop(_, _, _, _, _, _)
\* The for loop of _add_hotwords over what next(csv_reader) gives from the
\* i-th call on, `added` being the model.addHotWord calls made so far.
\* DictReader.__next__ at "fieldnames" is its first call, which asks for
\* the fieldnames (the end of the file is passed over); at "row" it asks
\* for a record, passing over empty ones, and the end of the file ends the
\* loop; at "zip" it holds the record `row` and, the fieldnames still
\* missing, asks for them again, and failing that raises TypeError on
\* zip(None, row).  Then row['word'] is looked up, then
\* row['boost_value'], then float() is called, then addHotWord.  The
\* result: the exception raised, the calls made, and whether the loop
\* waits for another read of the file (more).
AddHotWordsLoop(given, i, at, fieldnames, row, added) ==
    LET End(raised) == [raised |-> raised, added |-> added, more |-> FALSE]
        Call(word, boost) ==
            IF ~boost.ok THEN End("ValueError")
            ELSE AddHotWordsLoop(given, i, "row", fieldnames, <<>>,
                     Append(added, [word |-> word, boost |-> boost.f]))
        Float(word, boost_value) ==
            IF boost_value = NoneCell THEN End("TypeError")
            ELSE Call(word, ParseFloat(boost_value.s))
        Body(names) ==
            IF ~HasColumn(names, S_word) \/ ~HasColumn(names, S_boost_value)
            THEN End("KeyError")
            ELSE Float(RowGet(names, row, S_word), RowGet(names, row, S_boost_value))
        Step(c) ==
            IF at = "zip" /\ fieldnames.t = "list" THEN Body(fieldnames.l)
            ELSE IF c.t = "read" THEN [raised |-> "none", added |-> added, more |-> TRUE]
            ELSE IF c.t = "Error" THEN End("Error")
            ELSE IF at = "fieldnames"
            THEN AddHotWordsLoop(given, i + 1, "row",
                     IF c.t = "row" THEN Fieldnames(c.row) ELSE NoFieldnames,
                     <<>>, added)
            ELSE IF at = "row"
            THEN IF c.t = "StopIteration" THEN End("none")
                 ELSE AddHotWordsLoop(given, i + 1,
                          IF c.row = <<>> THEN "row" ELSE "zip", fieldnames,
                          c.row, added)
            ELSE IF c.t = "StopIteration" THEN End("TypeError")
            ELSE AddHotWordsLoop(given, i + 1, "zip", Fieldnames(c.row), row, added)
    IN  Step(given[IF i > Len(given) THEN Len(given) ELSE i])

\* The for loop of _add_hotwords on the text s the file object has got.
DictReaderLoop(s) ==
    AddHotWordsLoop(ReadRows(Delivered(s), 1), 1, "fieldnames", NoFieldnames,
                    <<>>, <<>>)

\* ------------------------------------------------------------------- state
VARIABLES
    pc,                 \* the statement generate_hotwords executes next
    error,              \* the exception that ended its run
    calls,              \* the spacy.load / download calls _load_model made
    doc,                \* nlp(minutes): the token sequence
    propns,             \* _get_proper_nouns(doc)
    normalized_propns,  \* _normalize_words(propns)
    heap,               \* the dict objects, by reference
    propn_freqs,        \* reference to Counter(normalized_propns)
    normalized_freqs,   \* reference returned by _rescale_freqs
    range_min,          \* argument of generate_hotwords
    range_max,          \* argument of generate_hotwords
    rescale_enabled,    \* the configuration option of the specification
    csv_file,           \* the file at minutes_path.with_suffix('.csv')
    buffer,             \* bytes written to the open file and not yet flushed
    item_no,            \* items the for loop over normalized_freqs has taken
    encoding,           \* the encoding of the locale generate_hotwords runs in
    tpc,                \* the statement transcribe_audio executes next
    terror,             \* the exception that ended its run
    hotwords,           \* the model.addHotWord calls of _add_hotwords
    reader,             \* the file object _add_hotwords reads the table with
    transcript,         \* transcription.transcripts[0]
    tbuffer,            \* bytes written to the transcript and not yet flushed
    token_no,           \* tokens the for loop over transcript.tokens has taken
    tencoding,          \* the encoding of the locale transcribe_audio runs in
    same_path,          \* audio_path.with_suffix('.csv') is hotwords_path
    audio_csv           \* the file at audio_path.with_suffix('.csv') otherwise

\* The variables of generate_hotwords, the file apart.
gvars == <<pc, error, calls, doc, propns, normalized_propns, heap, propn_freqs,
           normalized_freqs, range_min, range_max, rescale_enabled, buffer,
           item_no, encoding>>

\* The variables of transcribe_audio, the files apart.
tvars == <<tpc, terror, hotwords, reader, transcript, tbuffer, token_no,
           tencoding, same_path>>

vars == <<gvars, tvars, csv_file, audio_csv>>

NoError == [stage |-> "none", exc |-> "none"]
Err(stage, exc) == [stage |-> stage, exc |-> exc]

\* A file is the bytes it holds.
NoFile == [exists |-> FALSE, bytes |-> <<>>]
\* A table left at the output path by an earlier run.
StaleFile == [exists |-> TRUE, bytes |-> <<"o", "l", "d", CR, LF>>]
EmptyFile == [exists |-> TRUE, bytes |-> <<>>]

\* The file f after a write of data at its start, by a file object that
\* has written nothing before: what f held beyond the data stays.
WriteAt(f, data) ==
    [exists |-> TRUE, bytes |-> data \o SubSeq(f.bytes, Len(data) + 1, Len(f.bytes))]

\* The outcomes of the flush at the exit of a with block, b being the
\* buffered bytes: the file takes all of them, or the write raises OSError
\* after the file has taken a part of them, which may be nothing.  The
\* tables of the model are shorter than the buffer of the file object, so
\* that nothing is flushed before the exit.
Flush(b) ==
    {[ok |-> TRUE, bytes |-> b]}
        \cup {[ok |-> FALSE, bytes |-> SubSeq(b, 1, n)] : n \in 0..(Len(b) - 1)}

\* (range_min, range_max) pairs _rescale_freqs is called with in SpecRescale;
\* the first is the command line's default, the one Spec runs with.
Ranges == {<<DefaultRangeMin, DefaultRangeMax>>, <<-2, 3>>}

EmptyHeap == [r \in Refs |-> <<>>]

\* transcription.transcripts[0] before sttWithMetadata has returned.
NoTranscript == [confidence |-> ParseFloat(<<"0">>).f, tokens |-> <<>>]

\* The transcripts sttWithMetadata returns: the confidence, and per token
\* its text, timestep and start time.
Transcripts ==
    {[confidence |-> ParseFloat(<<"-", "1", ".", "5">>).f,
      tokens |-> <<[text |-> <<"h">>, timestep |-> 1,
                    start_time |-> ParseFloat(<<"0", ".", "0", "2">>).f]>>]}

\* transcribe_audio before its first statement.
TInit ==
    /\ tpc = "basic_config"
    /\ terror = NoError
    /\ hotwords = <<>>
    /\ reader = NewReader
    /\ transcript = NoTranscript
    /\ tbuffer = <<>>
    /\ token_no = 0
    /\ tencoding \in Encodings
    /\ same_path \in BOOLEAN
    /\ audio_csv = NoFile

\* generate_hotwords runs alone: no transcribe_audio takes a step.
TIdle ==
    /\ tpc = "basic_config"
    /\ terror = NoError
    /\ hotwords = <<>>
    /\ reader = NewReader
    /\ transcript = NoTranscript
    /\ tbuffer = <<>>
    /\ token_no = 0
    /\ tencoding = "utf-8"
    /\ same_path = FALSE
    /\ audio_csv = NoFile

Init ==
    /\ pc = "pdf_to_str"
    /\ error = NoError
    /\ calls = <<>>
    /\ doc = <<>>
    /\ propns = <<>>
    /\ normalized_propns = <<>>
    /\ heap = EmptyHeap
    /\ propn_freqs = NoRef
    /\ normalized_freqs = NoRef
    /\ range_min = DefaultRangeMin
    /\ range_max = DefaultRangeMax
    /\ rescale_enabled \in BOOLEAN
    /\ csv_file \in {NoFile, StaleFile}
    /\ buffer = <<>>
    /\ item_no = 0
    /\ encoding \in Encodings
    /\ TIdle

\* --------------------------------------------------------- generate_hotwords
\* minutes = _pdf_to_str(minutes_path): returns the text or raises.
PdfToStr ==
    /\ pc = "pdf_to_str"
    /\ \/ pc' = "load_model" /\ error' = error
       \/ pc' = "failed" /\ error' = Err("pdf_to_str", "OSError")
    /\ UNCHANGED <<calls, doc, propns, normalized_propns, heap, propn_freqs,
                   normalized_freqs, range_min, range_max, rescale_enabled,
                   csv_file, buffer, item_no, encoding, tvars, audio_csv>>

\* _load_model: model = spacy.load(name) in the try block.
LoadModel ==
    /\ pc = "load_model"
    /\ \/ /\ calls' = Append(calls, <<"load", "ok">>)
          /\ pc' = "nlp" /\ error' = error
       \/ /\ calls' = Append(calls, <<"load", "OSError">>)
          /\ pc' = "download" /\ error' = error
       \/ /\ calls' = Append(calls, <<"load", "Exception">>)
          /\ pc' = "failed" /\ error' = Err("load_model", "Exception")
    /\ UNCHANGED <<doc, propns, normalized_propns, heap, propn_freqs,
                   normalized_freqs, range_min, range_max, rescale_enabled,
                   csv_file, buffer, item_no, encoding, tvars, audio_csv>>

\* _load_model: spacy.cli.download.download(name) in the except block.
Download ==
    /\ pc = "download"
    /\ \/ /\ calls' = Append(calls, <<"download", "ok">>)
          /\ pc' = "reload" /\ error' = error
       \/ /\ calls' = Append(calls, <<"download", "SystemExit">>)
          /\ pc' = "failed" /\ error' = Err("download", "SystemExit")
    /\ UNCHANGED <<doc, propns, normalized_propns, heap, propn_freqs,
                   normalized_freqs, range_min, range_max, rescale_enabled,
                   csv_file, buffer, item_no, encoding, tvars, audio_csv>>

\* Mutant of Reload: a second load that fails with OSError downloads again.
Reload_RetryOnFailure ==
    /\ pc = "reload"
    /\ \/ /\ calls' = Append(calls, <<"load", "ok">>)
          /\ pc' = "nlp" /\ error' = error
       \/ /\ calls' = Append(calls, <<"load", "OSError">>)
          /\ pc' = "download" /\ error' = error
    /\ UNCHANGED <<doc, propns, normalized_propns, heap, propn_freqs,
                   normalized_freqs, range_min, range_max, rescale_enabled,
                   csv_file, buffer, item_no, encoding, tvars, audio_csv>>

\* _load_model: model = spacy.load(name) in the except block.
Reload ==
    /\ pc = "reload"
    /\ \/ /\ calls' = Append(calls, <<"load", "ok">>)
          /\ pc' = "nlp" /\ error' = error
       \/ /\ calls' = Append(calls, <<"load", "OSError">>)
          /\ pc' = "failed" /\ error' = Err("reload", "OSError")
    /\ UNCHANGED <<doc, propns, normalized_propns, heap, propn_freqs,
                   normalized_freqs, range_min, range_max, rescale_enabled,
                   csv_file, buffer, item_no, encoding, tvars, audio_csv>>

\* doc = nlp(minutes): the tagger returns a token sequence or raises.
Nlp ==
    /\ pc = "nlp"
    /\ \/ /\ doc' \in Docs
          /\ pc' = "get_proper_nouns" /\ error' = error
       \/ /\ doc' = doc
          /\ pc' = "failed" /\ error' = Err("nlp", "ValueError")
    /\ UNCHANGED <<calls, propns, normalized_propns, heap, propn_freqs,
                   normalized_freqs, range_min, range_max, rescale_enabled,
                   csv_file, buffer, item_no, encoding, tvars, audio_csv>>

\* propns = _get_proper_nouns(doc)
GetProperNouns ==
    /\ pc = "get_proper_nouns"
    /\ propns' = _get_proper_nouns(doc)
    /\ pc' = "normalize_words"
    /\ UNCHANGED <<error, calls, doc, normalized_propns, heap, propn_freqs,
                   normalized_freqs, range_min, range_max, rescale_enabled,
                   csv_file, buffer, item_no, encoding, tvars, audio_csv>>

\* normalized_propns = _normalize_words(propns)
NormalizeWords ==
    /\ pc = "normalize_words"
    /\ normalized_propns' = _normalize_words(propns)
    /\ pc' = "count"
    /\ UNCHANGED <<error, calls, doc, propns, heap, propn_freqs,
                   normalized_freqs, range_min, range_max, rescale_enabled,
                   csv_file, buffer, item_no, encoding, tvars, audio_csv>>

\* propn_freqs = Counter(normalized_propns): a new dict object.
Count ==
    /\ pc = "count"
    /\ heap' = [heap EXCEPT ![1] = Counter(normalized_propns)]
    /\ propn_freqs' = 1
    /\ pc' = "rescale"
    /\ UNCHANGED <<error, calls, doc, propns, normalized_propns,
                   normalized_freqs, range_min, range_max, rescale_enabled,
                   csv_file, buffer, item_no, encoding, tvars, audio_csv>>

\* normalized_freqs = _rescale_freqs(propn_freqs, range_min, range_max)
Rescale ==
    /\ pc = "rescale"
    /\ \E r \in {_rescale_freqs(heap, propn_freqs, range_min, range_max)} :
          /\ heap' = r.heap
          /\ normalized_freqs' = r.ret
          /\ IF r.raised = "none"
             THEN pc' = "open" /\ error' = error
             ELSE pc' = "failed" /\ error' = Err("rescale", r.raised)
    /\ UNCHANGED <<calls, doc, propns, normalized_propns, propn_freqs,
                   range_min, range_max, rescale_enabled, csv_file, buffer,
                   item_no, encoding, tvars, audio_csv>>

\* Mutant of OpenOutput: the file is opened before _rescale_freqs is called.
OpenOutput_BeforeRescale ==
    /\ \/ /\ pc = "rescale" /\ csv_file # EmptyFile
          /\ csv_file' = EmptyFile /\ pc' = pc /\ error' = error
       \/ /\ pc = "open"
          /\ csv_file' = EmptyFile /\ pc' = "write_header" /\ error' = error
       \/ /\ pc = "open"
          /\ csv_file' = csv_file /\ pc' = "failed" /\ error' = Err("open", "OSError")
    /\ UNCHANGED <<calls, doc, propns, normalized_propns, heap, propn_freqs,
                   normalized_freqs, range_min, range_max, rescale_enabled,
                   buffer, item_no, encoding, tvars, audio_csv>>

\* with open(output_path, 'w', newline='') as csv_file: the file is created
\* or truncated, or open raises.
OpenOutput ==
    /\ pc = "open"
    /\ \/ csv_file' = EmptyFile /\ pc' = "write_header" /\ error' = error
       \/ csv_file' = csv_file /\ pc' = "failed" /\ error' = Err("open", "OSError")
    /\ UNCHANGED <<calls, doc, propns, normalized_propns, heap, propn_freqs,
                   normalized_freqs, range_min, range_max, rescale_enabled,
                   buffer, item_no, encoding, tvars, audio_csv>>

\* csv_writer.writerow(['word', 'boost_value']): the header is ASCII, which
\* every encoding of Encodings takes as it is; the file object buffers it.
WriteHeader ==
    /\ pc = "write_header"
    /\ buffer' = buffer \o WriteRowLine(<<StrCell(S_word), StrCell(S_boost_value)>>)
    /\ pc' = "write_rows"
    /\ UNCHANGED <<error, calls, doc, propns, normalized_propns, heap,
                   propn_freqs, normalized_freqs, range_min, range_max,
                   rescale_enabled, csv_file, item_no, encoding, tvars, audio_csv>>

\* for item in normalized_freqs.items(): csv_writer.writerow([item[0], item[1]])
\* The loop takes the next item and writerow writes its row to the file
\* object, which encodes it and buffers the bytes.  A row the encoding cannot
\* encode raises UnicodeEncodeError: the exit of the with block flushes the
\* rows written before and closes the file, and generate_hotwords ends by
\* the exception, or by the OSError of the flush if that fails too.
WriteRow ==
    /\ pc = "write_rows"
    /\ item_no < Len(heap[normalized_freqs])
    /\ item_no' = item_no + 1
    /\ \E item \in {heap[normalized_freqs][item_no + 1]} :
       \E row \in {WriteRowLine(<<StrCell(item.k), item.v>>)} :
       \E enc \in {Encode(encoding, row)} :
          IF enc.ok
          THEN /\ buffer' = buffer \o enc.bytes
               /\ csv_file' = csv_file
               /\ pc' = pc /\ error' = error
          ELSE \E out \in Flush(buffer) :
               /\ buffer' = <<>>
               /\ csv_file' = WriteAt(csv_file, out.bytes)
               /\ pc' = "failed"
               /\ error' = Err("write_rows", IF out.ok THEN "UnicodeEncodeError"
                                             ELSE "OSError")
    /\ UNCHANGED <<calls, doc, propns, normalized_propns, heap, propn_freqs,
                   normalized_freqs, range_min, range_max, rescale_enabled,
                   encoding, tvars, audio_csv>>

\* The for loop is exhausted: the exit of the with block flushes the
\* buffered bytes of the table to the file and closes it, and
\* generate_hotwords returns; or the flush raises OSError and
\* generate_hotwords ends by it, the file holding the bytes it has taken.
CloseOutput ==
    /\ pc = "write_rows"
    /\ item_no >= Len(heap[normalized_freqs])
    /\ \E out \in Flush(buffer) :
          /\ buffer' = <<>>
          /\ csv_file' = WriteAt(csv_file, out.bytes)
          /\ IF out.ok THEN pc' = "done" /\ error' = error
             ELSE pc' = "failed" /\ error' = Err("write_rows", "OSError")
    /\ UNCHANGED <<calls, doc, propns, normalized_propns, heap, propn_freqs,
                   normalized_freqs, range_min, range_max, rescale_enabled,
                   item_no, encoding, tvars, audio_csv>>

\* ----------------------------------------------------------- transcribe_audio
\* logging.basicConfig(...): the FileHandler opens transcriber.log.
BasicConfig ==
    /\ tpc = "basic_config"
    /\ \/ tpc' = "model" /\ terror' = terror
       \/ tpc' = "failed" /\ terror' = Err("basic_config", "OSError")
    /\ UNCHANGED <<hotwords, reader, transcript, tbuffer, token_no, tencoding,
                   same_path, gvars, csv_file, audio_csv>>

\* transcriber = Model(str(model_path))
NewModel ==
    /\ tpc = "model"
    /\ \/ tpc' = "scorer" /\ terror' = terror
       \/ tpc' = "failed" /\ terror' = Err("model", "RuntimeError")
    /\ UNCHANGED <<hotwords, reader, transcript, tbuffer, token_no, tencoding,
                   same_path, gvars, csv_file, audio_csv>>

\* if scorer_path is not None: transcriber.enableExternalScorer(...)
EnableExternalScorer ==
    /\ tpc = "scorer"
    /\ \/ tpc' = "add_hotwords" /\ terror' = terror
       \/ tpc' = "failed" /\ terror' = Err("scorer", "RuntimeError")
    /\ UNCHANGED <<hotwords, reader, transcript, tbuffer, token_no, tencoding,
                   same_path, gvars, csv_file, audio_csv>>

\* if hotwords_path is not None: _add_hotwords(transcriber, hotwords_path),
\* whose first statement opens the file for reading, the table of
\* generate_hotwords in whatever state that has it in; without a
\* hotwords_path transcribe_audio goes on.
OpenHotwords ==
    /\ tpc = "add_hotwords"
    /\ \/ tpc' = "beam_width" /\ terror' = terror
       \/ /\ csv_file.exists
          /\ tpc' = "read_hotwords" /\ terror' = terror
       \/ /\ ~csv_file.exists
          /\ tpc' = "failed" /\ terror' = Err("add_hotwords", "FileNotFoundError")
    /\ reader' = NewReader
    /\ UNCHANGED <<hotwords, transcript, tbuffer, token_no, tencoding,
                   same_path, gvars, csv_file, audio_csv>>

\* The for loop of _add_hotwords from one read of the file to the next:
\* the file object reads what the file holds by now beyond the bytes it
\* has read, and the loop goes on as far as that takes it: it waits for
\* the next read, or it ends and _add_hotwords returns, or an exception
\* ends transcribe_audio.
ReadHotwords ==
    /\ tpc = "read_hotwords"
    /\ \E r \in {FileRead(tencoding, reader, ChunkAt(csv_file.bytes, reader.pos))} :
          IF r.err
          THEN /\ reader' = reader /\ hotwords' = hotwords
               /\ tpc' = "failed"
               /\ terror' = Err("read_hotwords", "UnicodeDecodeError")
          ELSE \E out \in {DictReaderLoop(r.reader.text)} :
               /\ reader' = r.reader
               /\ hotwords' = out.added
               /\ IF out.raised # "none"
                  THEN tpc' = "failed" /\ terror' = Err("read_hotwords", out.raised)
                  ELSE /\ tpc' = IF out.more THEN "read_hotwords" ELSE "beam_width"
                       /\ terror' = terror
    /\ UNCHANGED <<transcript, tbuffer, token_no, tencoding, same_path, gvars,
                   csv_file, audio_csv>>

\* if beam_width is not None: transcriber.setBeamWidth(str(beam_width))
SetBeamWidth ==
    /\ tpc = "beam_width"
    /\ \/ tpc' = "wav_to_array" /\ terror' = terror
       \/ tpc' = "failed" /\ terror' = Err("beam_width", "TypeError")
    /\ UNCHANGED <<hotwords, reader, transcript, tbuffer, token_no, tencoding,
                   same_path, gvars, csv_file, audio_csv>>

\* audio = _wav_to_array(str(audio_path))
WavToArray ==
    /\ tpc = "wav_to_array"
    /\ \/ tpc' = "stt" /\ terror' = terror
       \/ tpc' = "failed" /\ terror' = Err("wav_to_array", "OSError")
    /\ UNCHANGED <<hotwords, reader, transcript, tbuffer, token_no, tencoding,
                   same_path, gvars, csv_file, audio_csv>>

\* transcription = transcriber.sttWithMetadata(audio);
\* transcript = transcription.transcripts[0]
SttWithMetadata ==
    /\ tpc = "stt"
    /\ \/ /\ transcript' \in Transcripts
          /\ tpc' = "open" /\ terror' = terror
       \/ /\ transcript' = transcript
          /\ tpc' = "failed" /\ terror' = Err("stt", "RuntimeError")
    /\ UNCHANGED <<hotwords, reader, tbuffer, token_no, tencoding, same_path,
                   gvars, csv_file, audio_csv>>

\* The files after transcribe_audio has made the one at
\* audio_path.with_suffix('.csv') f.
TranscriptFile(f) ==
    IF same_path THEN csv_file' = f /\ audio_csv' = audio_csv
    ELSE audio_csv' = f /\ csv_file' = csv_file

\* with open(audio_path.with_suffix('.csv'), 'w', newline='') as csvfile:
\* the file is created or truncated, or open raises.
OpenTranscript ==
    /\ tpc = "open"
    /\ \/ /\ TranscriptFile(EmptyFile)
          /\ tpc' = "write_header" /\ terror' = terror
       \/ /\ csv_file' = csv_file /\ audio_csv' = audio_csv
          /\ tpc' = "failed" /\ terror' = Err("open", "OSError")
    /\ UNCHANGED <<hotwords, reader, transcript, tbuffer, token_no, tencoding,
                   same_path, gvars>>

S_confidence == <<"c", "o", "n", "f", "i", "d", "e", "n", "c", "e">>
S_text == <<"t", "e", "x", "t">>
S_timestep == <<"t", "i", "m", "e", "s", "t", "e", "p">>
S_start_time == <<"s", "t", "a", "r", "t", "_", "t", "i", "m", "e">>

\* csv_writer.writerow(['confidence', 'text', 'timestep', 'start_time'])
WriteTranscriptHeader ==
    /\ tpc = "write_header"
    /\ tbuffer' = tbuffer \o WriteRowLine(<<StrCell(S_confidence), StrCell(S_text),
                                           StrCell(S_timestep), StrCell(S_start_time)>>)
    /\ tpc' = "write_rows"
    /\ UNCHANGED <<terror, hotwords, reader, transcript, token_no, tencoding,
                   same_path, gvars, csv_file, audio_csv>>

\* for token in transcript.tokens: csv_writer.writerow([transcript.confidence,
\* token.text, token.timestep, token.start_time]), the file object encoding
\* and buffering the row as that of generate_hotwords does.
WriteTranscriptRow ==
    /\ tpc = "write_rows"
    /\ token_no < Len(transcript.tokens)
    /\ token_no' = token_no + 1
    /\ \E token \in {transcript.tokens[token_no + 1]} :
       \E row \in {WriteRowLine(<<FloatVal(transcript.confidence), StrCell(token.text),
                                   IntVal(token.timestep), FloatVal(token.start_time)>>)} :
       \E enc \in {Encode(tencoding, row)} :
          IF enc.ok
          THEN /\ tbuffer' = tbuffer \o enc.bytes
               /\ csv_file' = csv_file /\ audio_csv' = audio_csv
               /\ tpc' = tpc /\ terror' = terror
          ELSE \E out \in Flush(tbuffer) :
               /\ tbuffer' = <<>>
               /\ TranscriptFile(WriteAt(IF same_path THEN csv_file ELSE audio_csv,
                                         out.bytes))
               /\ tpc' = "failed"
               /\ terror' = Err("write_rows", IF out.ok THEN "UnicodeEncodeError"
                                              ELSE "OSError")
    /\ UNCHANGED <<hotwords, reader, transcript, tencoding, same_path, gvars>>

\* The for loop is exhausted: the exit of the with block flushes the
\* transcript to the file and closes it, and transcribe_audio returns, or
\* the flush raises OSError.
CloseTranscript ==
    /\ tpc = "write_rows"
    /\ token_no >= Len(transcript.tokens)
    /\ \E out \in Flush(tbuffer) :
          /\ tbuffer' = <<>>
          /\ TranscriptFile(WriteAt(IF same_path THEN csv_file ELSE audio_csv,
                                    out.bytes))
          /\ IF out.ok THEN tpc' = "done" /\ terror' = terror
             ELSE tpc' = "failed" /\ terror' = Err("write_rows", "OSError")
    /\ UNCHANGED <<hotwords, reader, transcript, token_no, tencoding, same_path,
                   gvars>>

\* ------------------------------------------------------------------- runs
\* A run of generate_hotwords.
Next ==
    \/ PdfToStr
    \/ LoadModel
    \/ Download
    \/ Reload
    \/ Nlp
    \/ GetProperNouns
    \/ NormalizeWords
    \/ Count
    \/ Rescale
    \/ OpenOutput
    \/ WriteHeader
    \/ WriteRow
    \/ CloseOutput

Spec == Init /\ [][Next]_vars

\* ------------------------------------------- _rescale_freqs on drawn tables
\* The normalized terms the tables of SpecRescale are keyed by.
Terms == {<<"d", "a">>, <<"p", "k">>, <<"i", "U+0307", "s">>}

RECURSIVE TablesOver(_)
\* The Counters whose keys are drawn from T, in every insertion order, with
\* counts in 1..MaxCount.
TablesOver(T) ==
    {<<>>} \cup
    UNION { { <<Entry(k, IntVal(n))>> \o rest : n \in 1..MaxCount,
                                                 rest \in TablesOver(T \ {k}) }
            : k \in T }

\* generate_hotwords about to call _rescale_freqs on the Counter `table`.
AtRescale(table) ==
    /\ pc = "rescale"
    /\ error = NoError
    /\ calls = <<>>
    /\ doc = <<>>
    /\ propns = <<>>
    /\ normalized_propns = <<>>
    /\ heap = [EmptyHeap EXCEPT ![1] = table]
    /\ propn_freqs = 1
    /\ normalized_freqs = NoRef
    /\ rescale_enabled = TRUE
    /\ buffer = <<>>
    /\ item_no = 0
    /\ encoding \in Encodings

InitRescale ==
    /\ \E table \in TablesOver(Terms) : AtRescale(table)
    /\ \E r \in Ranges : range_min = r[1] /\ range_max = r[2]
    /\ csv_file = NoFile
    /\ TIdle

\* A run of generate_hotwords from the call of _rescale_freqs on.
NextRescale ==
    \/ Rescale
    \/ OpenOutput
    \/ WriteHeader
    \/ WriteRow
    \/ CloseOutput

SpecRescale == InitRescale /\ [][NextRescale]_vars

\* ------------------------------------ generate_hotwords and transcribe_audio
\* The Counters generate_hotwords writes the tables of in SpecTranscribe.
RoundTripTables ==
    {<<Entry(<<"d", "a">>, IntVal(1)), Entry(<<"p", "k">>, IntVal(3))>>,
     <<Entry(<<"i", "U+0307", "s">>, IntVal(1)), Entry(<<"d", "a">>, IntVal(2))>>,
     <<Entry(<<"d", "a">>, IntVal(2)), Entry(<<"p", "k">>, IntVal(4)),
       Entry(<<"i", "U+0307", "s">>, IntVal(1))>>}

InitTranscribe ==
    /\ \E table \in RoundTripTables : AtRescale(table)
    /\ range_min = DefaultRangeMin
    /\ range_max = DefaultRangeMax
    /\ csv_file \in {NoFile, StaleFile}
    /\ TInit

\* A run of generate_hotwords from the call of _rescale_freqs on and a run
\* of transcribe_audio, each in a process of its own, the hotwords_path of
\* the one being the output path of the other.
NextTranscribe ==
    \/ Rescale
    \/ OpenOutput
    \/ WriteHeader
    \/ WriteRow
    \/ CloseOutput
    \/ BasicConfig
    \/ NewModel
    \/ EnableExternalScorer
    \/ OpenHotwords
    \/ ReadHotwords
    \/ SetBeamWidth
    \/ WavToArray
    \/ SttWithMetadata
    \/ OpenTranscript
    \/ WriteTranscriptHeader
    \/ WriteTranscriptRow
    \/ CloseTranscript

SpecTranscribe == InitTranscribe /\ [][NextTranscribe]_vars

\* ------------------------------------------------------------ positions
\* The statements of generate_hotwords in execution order.
Statements ==
    <<"pdf_to_str", "load_model", "download", "reload", "nlp",
      "get_proper_nouns", "normalize_words", "count", "rescale", "open",
      "write_header", "write_rows", "done">>

StatementNo(name) == CHOOSE i \in 1..Len(Statements) : Statements[i] = name

\* The statement the run of generate_hotwords is at, or failed in.  "write_rows" is the for loop
\* with the exit of the with block.
At == IF pc = "failed" THEN error.stage ELSE pc

\* The run has executed statement `name` without an exception.  The three
\* calls of _load_model are executed as the calls before them turn out.
Completed(name) ==
    CASE name = "load_model" -> Len(calls) >= 1 /\ calls[1] = <<"load", "ok">>
      [] name = "download" -> Len(calls) >= 2 /\ calls[2] = <<"download", "ok">>
      [] name = "reload" -> Len(calls) >= 3 /\ calls[3] = <<"load", "ok">>
      [] OTHER -> StatementNo(At) > StatementNo(name)

\* ------------------------------------------------------------------ claims
\* The step in which _rescale_freqs is called.
RescaleCalled == pc = "rescale" /\ pc' # "rescale"

\* The step in which _rescale_freqs is called and returns.
RescaleReturns == pc = "rescale" /\ pc' = "open"

\* The counts of the table _rescale_freqs is called with.
CountsIn == {heap[propn_freqs][i].v.n : i \in 1..Len(heap[propn_freqs])}

\* C1: for a non-empty frequency table in which every term has the same
\* count, _rescale_freqs raises no division fault: the call returns a mapping
\* that gives every term one and the same weight.
C1_DegenerateCaseHasFallback ==
    [][(RescaleCalled /\ Cardinality(CountsIn) = 1)
         => /\ pc' = "open"
            /\ normalized_freqs' # NoRef
            /\ LET out == heap'[normalized_freqs']
               IN  /\ Len(out) = Len(heap[propn_freqs])
                   /\ \A i, j \in 1..Len(out) : out[i].v = out[j].v]_vars

\* C2: for a non-empty table with max_count > min_count and
\* range_min < range_max, _rescale_freqs returns, every term keeps its place,
\* a term counted min_count weighs exactly range_min, a term counted
\* max_count weighs exactly range_max, and every weight lies in
\* [range_min, range_max].
C2_BoundaryLaw ==
    [][(RescaleCalled /\ Cardinality(CountsIn) > 1 /\ range_min < range_max)
         => /\ pc' = "open"
            /\ normalized_freqs' # NoRef
            /\ LET given == heap[propn_freqs]
                   out == heap'[normalized_freqs']
               IN  /\ Len(out) = Len(given)
                   /\ \A i \in 1..Len(given) :
                        /\ out[i].k = given[i].k
                        /\ out[i].v.t = "float"
                        /\ given[i].v.n = SetMin(CountsIn)
                             => FEqInt(out[i].v.f, range_min)
                        /\ given[i].v.n = SetMax(CountsIn)
                             => FEqInt(out[i].v.f, range_max)
                        /\ IntLeF(range_min, out[i].v.f)
                        /\ FLeInt(out[i].v.f, range_max)]_vars

\* C2 witness: scenario 1 of the specification, {t1: 2, t2: 3, t3: 1}
\* rescaled to [1, 20], gives 10.5, 20 and 1.
C2_Scenario1 ==
    /\ pc = "open"
    /\ range_min = 1 /\ range_max = 20
    /\ Len(heap[normalized_freqs]) = 3
    /\ FCmpRat(heap[normalized_freqs][1].v.f, 21, 2) = 0
    /\ FEqInt(heap[normalized_freqs][2].v.f, 20)
    /\ FEqInt(heap[normalized_freqs][3].v.f, 1)

\* C3: when no candidate survives filtering and normalization, the run has
\* failed in the rescaling statement with max()'s ValueError as soon as it
\* has left that statement, and the output file has not been touched.
C3_EmptyTableIsFatal ==
    (Completed("count") /\ normalized_propns = <<>> /\ pc # "rescale")
        => /\ pc = "failed"
           /\ error = Err("rescale", "ValueError")
           /\ normalized_freqs = NoRef
           /\ csv_file \in {NoFile, StaleFile}

\* C3 witness: a document with tokens, none of which yields a term, has
\* failed in the rescaling statement.
C3_EmptyRunFailed ==
    /\ pc = "failed"
    /\ error = Err("rescale", "ValueError")
    /\ doc # <<>>
    /\ normalized_propns = <<>>

S_word_frequency ==
    <<"w", "o", "r", "d", ",", "f", "r", "e", "q", "u", "e", "n", "c", "y">>

\* The table as the run has written it so far: the bytes the file holds and
\* those the file object still buffers.
Table == csv_file.bytes \o buffer

\* The line ends ("\r\n") of the table: the positions of their last
\* characters.
LineEnds == {p \in 2..Len(Table) : Table[p - 1] = CR /\ Table[p] = LF}

\* The k-th line end of the table; 0 for k = 0.
LineEnd(k) ==
    IF k = 0 THEN 0
    ELSE CHOOSE p \in LineEnds : Cardinality({q \in LineEnds : q <= p}) = k

\* The k-th line of the table, without its line end.
TableLine(k) == SubSeq(Table, LineEnd(k - 1) + 1, LineEnd(k) - 2)

\* C4: with rescale_enabled = false the run does not fail in the rescaling
\* statement (an empty candidate set is not fatal), and the table it writes
\* starts with the header word,frequency.
C4_RawCountVariant ==
    ~rescale_enabled
        => /\ ~(pc = "failed" /\ error.stage = "rescale")
           /\ pc \in {"write_rows", "done"}
                => LineEnds # {} /\ TableLine(1) = S_word_frequency

\* The positions of the tokens of doc that satisfy the four conditions.
Qualifying ==
    {i \in 1..Len(doc) : /\ doc[i].pos_ = "PROPN"
                         /\ ~StrIsUpper(doc[i].text)
                         /\ doc[i].is_stop = FALSE
                         /\ doc[i].is_punct = FALSE}

\* The j-th qualifying position, counted from the front of doc.
NthQualifying(j) ==
    CHOOSE i \in Qualifying : Cardinality({q \in Qualifying : q <= i}) = j

\* C5: the result of _get_proper_nouns has one element per qualifying token
\* and no other, and its j-th element is the text of the j-th qualifying
\* token of the document.
C5_FilteringPurity ==
    Completed("get_proper_nouns")
        => /\ Len(propns) = Cardinality(Qualifying)
           /\ \A j \in 1..Len(propns) : propns[j] = doc[NthQualifying(j)].text

\* C5 witness: a document in which a qualifying token stands between two
\* tokens that do not qualify, filtered.
C5_MixedDocFiltered ==
    /\ Completed("get_proper_nouns")
    /\ Len(doc) = 3
    /\ Qualifying = {2}
    /\ propns = <<doc[2].text>>

\* The positions of the candidates that are solely alphabetic.
Alphabetic == {i \in 1..Len(propns) : StrIsAlpha(propns[i])}

NthAlphabetic(j) ==
    CHOOSE i \in Alphabetic : Cardinality({q \in Alphabetic : q <= i}) = j

\* C6: _normalize_words emits, in order, term.lower() for exactly the
\* candidates that are solely alphabetic, and no emitted term is empty or
\* holds a non-alphabetic character.
C6_NormalizationTotality ==
    Completed("normalize_words")
        => /\ Len(normalized_propns) = Cardinality(Alphabetic)
           /\ \A j \in 1..Len(normalized_propns) :
                /\ normalized_propns[j] = StrLower(propns[NthAlphabetic(j)])
                /\ normalized_propns[j] # <<>>
                /\ \A c \in 1..Len(normalized_propns[j]) :
                     IsAlphaChar(normalized_propns[j][c])

S_header ==
    <<"w", "o", "r", "d", ",", "b", "o", "o", "s", "t", "_", "v", "a", "l", "u", "e">>

\* The statements of transcribe_audio in execution order.
TStatements ==
    <<"basic_config", "model", "scorer", "add_hotwords", "read_hotwords",
      "beam_width", "wav_to_array", "stt", "open", "write_header",
      "write_rows", "done">>

\* The statement the run of transcribe_audio is at, or failed in.
TAt == IF tpc = "failed" THEN terror.stage ELSE tpc

\* transcribe_audio has opened its transcript at the path of the table.
TranscriptOpened ==
    /\ same_path
    /\ \E i, j \in 1..Len(TStatements) :
         /\ TStatements[i] = TAt /\ TStatements[j] = "open" /\ i > j

\* The run of generate_hotwords has ended after opening the output file.
RunEndedWithTable == pc = "done" \/ (pc = "failed" /\ At = "write_rows")

\* The step in which _add_hotwords, having opened the file, reads it for
\* the first time.
FirstRead == tpc = "read_hotwords" /\ reader = NewReader /\ reader' # reader

\* The step in which _add_hotwords, having read the file whole, reads it
\* again.
NextRead ==
    /\ tpc = "read_hotwords"
    /\ reader.pos > 0
    /\ reader.pos = Len(csv_file.bytes)
    /\ \A i \in 1..Len(reader.text) : reader.text[i] # EOF
    /\ reader.pend = <<>>
    /\ reader' # reader

\* The encoding transcribe_audio reads in decodes the bytes of the file.
Readable ==
    tencoding = "utf-8" \/ \A i \in 1..Len(csv_file.bytes) : csv_file.bytes[i] \notin HighBytes

\* The k-th line of the table is the row "term,number" of the k-1-th entry
\* of the final mapping, the term in the encoding of the file.
IsRowOfEntry(k) ==
    LET Row(line, term) ==
            /\ Len(line) > Len(term) + 1
            /\ SubSeq(line, 1, Len(term) + 1) = term \o <<",">>
            /\ \A c \in (Len(term) + 2)..Len(line) :
                 IsDigit(line[c]) \/ line[c] \in {".", "-"}
    IN  Row(TableLine(k), Encode(encoding, heap[normalized_freqs][k - 1].k).bytes)

\* The table is the header word,boost_value and one row per entry of the
\* final mapping, in the mapping's order, every row ended by a line end.
TableComplete ==
    /\ csv_file.exists
    /\ Cardinality(LineEnds) = Len(heap[normalized_freqs]) + 1
    /\ Len(Table) \in LineEnds
    /\ TableLine(1) = S_header
    /\ \A k \in 2..(Len(heap[normalized_freqs]) + 1) : IsRowOfEntry(k)

\* The first n calls _add_hotwords has made after this step add the first
\* n terms of the final mapping, in order, each with a boost equal to its
\* weight.
AddsEntries(n) ==
    /\ Len(hotwords') >= n
    /\ \A i \in 1..n :
         /\ hotwords'[i].word = StrCell(heap[normalized_freqs][i].k)
         /\ FEq(hotwords'[i].boost, heap[normalized_freqs][i].v.f)

Loads == {i \in 1..Len(calls) : calls[i][1] = "load"}
Downloads == {i \in 1..Len(calls) : calls[i][1] = "download"}

\* C8: _load_model downloads at most once, only as its second call and
\* after a first load that failed; it loads at most twice, the second time
\* only right after a download that succeeded, and then always; a failed
\* download or second load ends the run; a first load that succeeds is the
\* only call.
C8_OneRemedialAction ==
    /\ Cardinality(Downloads) <= 1
    /\ Cardinality(Loads) <= 2
    /\ \A i \in Downloads : i = 2 /\ calls[1] = <<"load", "OSError">>
    /\ \A i \in Loads : i = 1 \/ (i = 3 /\ calls[2] = <<"download", "ok">>)
    /\ (Len(calls) >= 1 /\ calls[1] = <<"load", "ok">>) => Len(calls) = 1
    /\ (Len(calls) >= 2 /\ calls[2] = <<"download", "ok">> /\ pc # "reload")
         => Len(calls) = 3
    /\ (Len(calls) >= 2 /\ calls[2][2] # "ok")
         => Len(calls) = 2 /\ pc = "failed"
    /\ (Len(calls) >= 3 /\ calls[3][2] # "ok")
         => Len(calls) = 3 /\ pc = "failed"

\* C8 witness: a first load that failed, the download, a second load that
\* succeeded, and the run completed.
C8_DownloadedThenLoaded ==
    /\ calls = <<<<"load", "OSError">>, <<"download", "ok">>, <<"load", "ok">>>>
    /\ pc = "done"

\* C9: the output file is created, truncated or written only by a run
\* that has completed every statement up to and including the rescaling; a
\* run that failed in one of those statements, or in opening the file, has
\* left the output path as it found it.
C9_NoPartialOutput ==
    /\ csv_file \notin {NoFile, StaleFile}
         => /\ At \in {"write_header", "write_rows", "done"}
            /\ calls[Len(calls)] = <<"load", "ok">>
            /\ propns = _get_proper_nouns(doc)
            /\ normalized_propns = _normalize_words(propns)
            /\ propn_freqs # NoRef
            /\ normalized_freqs # NoRef
    /\ (pc = "failed" /\ error.stage # "write_rows")
         => csv_file \in {NoFile, StaleFile}

\* C9 witness: the text source failed and the table of an earlier run is
\* still in place.
C9_SourceFailedFileKept ==
    /\ pc = "failed"
    /\ error.stage = "pdf_to_str"
    /\ csv_file = StaleFile

\* C10: _rescale_freqs leaves the table it was given unchanged and returns
\* a distinct object with the same key set.
C10_InputUnchanged ==
    [][RescaleReturns
         => /\ heap'[propn_freqs] = heap[propn_freqs]
            /\ normalized_freqs' # propn_freqs
            /\ Keys(heap'[normalized_freqs']) = Keys(heap[propn_freqs])]_vars

\* C10 amended: _rescale_freqs works in place.  When it returns, the object
\* returned is the table it was given, with the same keys in the same order
\* and every count overwritten by a float weight, and no other object has
\* changed; when it raises, the table is as it was.
C10_InPlace ==
    [][pc = "rescale"
         => /\ \A r \in Refs \ {propn_freqs} : heap'[r] = heap[r]
            /\ IF pc' = "open"
               THEN /\ normalized_freqs' = propn_freqs
                    /\ Len(heap'[propn_freqs]) = Len(heap[propn_freqs])
                    /\ \A i \in 1..Len(heap[propn_freqs]) :
                         /\ heap'[propn_freqs][i].k = heap[propn_freqs][i].k
                         /\ heap'[propn_freqs][i].v.t = "float"
               ELSE heap'[propn_freqs] = heap[propn_freqs]]_vars

\* C10 witness: the call has returned the table it was given, whose counts
\* are now weights.
C10_TableOverwritten ==
    /\ pc = "open"
    /\ normalized_freqs = propn_freqs
    /\ Len(heap[propn_freqs]) >= 2
    /\ \A i \in 1..Len(heap[propn_freqs]) : heap[propn_freqs][i].v.t = "float"
====
